---- MODULE Spec2Model ----
(***************************************************************************)
(* A model of the Transparov chess engine's search core: the Move16 codec, *)
(* the lock-free transposition table (src/src/engine/ttable.rs), the       *)
(* Lazy-SMP thread pool and its move election (src/src/engine/threads.rs). *)
(*                                                                         *)
(* The module holds several specifications over one set of variables; a    *)
(* specification leaves the variables of the other parts at their initial  *)
(* values.                                                                 *)
(*   SpecTT      one thread calling probe / save / new_search              *)
(*   SpecTTFill  one thread filling a cluster of the table                 *)
(*   SpecMove16  the Move16 codec applied to every real move               *)
(*   SpecTTConc  threads calling probe / save, one atomic access a step    *)
(*   SpecElect   elect_best_move on any votes                              *)
(*   SpecPool    the controller and the worker threads of the pool         *)
(*   SpecPoolFair   the same, every thread scheduled fairly                *)
(*   SpecRoot    the iterations of a worker's search() on one move list    *)
(*   SpecEngine  the event loop of src/src/engine/mod.rs and the threads   *)
(*               of search() in src/src/engine/search.rs                   *)
(*   SpecEngineFair the same, every thread scheduled fairly                *)
(*   SpecAlphaBeta  alphabeta, quiesce and root_search on a position that  *)
(*               is checkmate or stalemate                                 *)
(*   SpecAspire  the aspiration windows of a worker's search()             *)
(*   SpecAspireLoop the same loop with no limit on its passes, run fairly   *)
(***************************************************************************)
EXTENDS Integers, Sequences, FiniteSets, TLC

(***************************************************************************)
(* Bit arithmetic on naturals (the code works on u8 / u16 words).          *)
(***************************************************************************)
RECURSIVE BitAnd(_, _)
BitAnd(a, b) ==
    IF a = 0 \/ b = 0 THEN 0
    ELSE (IF a % 2 = 1 /\ b % 2 = 1 THEN 1 ELSE 0) + 2 * BitAnd(a \div 2, b \div 2)

RECURSIVE BitOr(_, _)
BitOr(a, b) ==
    IF a = 0 THEN b
    ELSE IF b = 0 THEN a
    ELSE (IF a % 2 = 1 \/ b % 2 = 1 THEN 1 ELSE 0) + 2 * BitOr(a \div 2, b \div 2)

Pow2(n) == 2 ^ n

U8(x) == x % 256

U16(x) == x % 65536

(***************************************************************************)
(* Move16: ttable.rs 18-76.  A library move is (source, dest, promotion);  *)
(* squares are 0..63, the promotion is a piece index of the chess library  *)
(* (pawn 0, knight 1, bishop 2, rook 3, queen 4, king 5) or NoPiece.       *)
(***************************************************************************)
NoPiece == 6

PromotionPieces == {1, 2, 3, 4}

Squares == 0 .. 63

ChessMove(src, dest, promotion) ==
    [src |-> src, dest |-> dest, promotion |-> promotion]

\* From<ChessMove> for Move16, with the destination bits dropped.
Move16OfNoDest(mv) ==
    LET src == U16(mv.src * Pow2(10))
        prom_flag == IF mv.promotion = NoPiece THEN 0 ELSE 1
        prom_piece == IF mv.promotion = NoPiece THEN 0
                      ELSE BitAnd(U16(mv.promotion - 1), 3)
    IN  BitOr(BitOr(src, prom_flag * 4), prom_piece)

\* From<ChessMove> for Move16, the promotion piece masked to one bit.
Move16OfOneBit(mv) ==
    LET src == U16(mv.src * Pow2(10))
        dest == U16(mv.dest * Pow2(4))
        prom_flag == IF mv.promotion = NoPiece THEN 0 ELSE 1
        prom_piece == IF mv.promotion = NoPiece THEN 0
                      ELSE BitAnd(U16(mv.promotion - 1), 1)
    IN  BitOr(BitOr(BitOr(src, dest), prom_flag * 4), prom_piece)

\* From<ChessMove> for Move16
Move16Of(mv) ==
    LET src == U16(mv.src * Pow2(10))
        dest == U16(mv.dest * Pow2(4))
        prom_flag == IF mv.promotion = NoPiece THEN 0 ELSE 1
        prom_piece == IF mv.promotion = NoPiece THEN 0
                      ELSE BitAnd(U16(mv.promotion - 1), 3)
    IN  BitOr(BitOr(BitOr(src, dest), prom_flag * 4), prom_piece)

\* From<Move16> for ChessMove
ChessMoveOf(mv16) ==
    LET src == BitAnd(mv16 \div Pow2(10), 63)
        dest == BitAnd(mv16 \div Pow2(4), 63)
        promotion == IF BitAnd(mv16, 4) # 0 THEN BitAnd(mv16, 3) + 1 ELSE NoPiece
    IN  ChessMove(src, dest, promotion)

(***************************************************************************)
(* Transposition table: ttable.rs 77-261.                                  *)
(***************************************************************************)
CLUSTER_SIZE == 4

GEN_BITS == 3

GEN_DELTA == Pow2(GEN_BITS)

GEN_CYCLE == 255 + GEN_DELTA

GEN_MASK == BitAnd(255 * Pow2(GEN_BITS), 255)

\* EntryType as u8
Pv == 4

Cut == 2

All == 1

EntryTypes == {Pv, Cut, All}

TTEntry(key16, mv, eval, depth, genbound) ==
    [key16 |-> key16, mv |-> mv, eval |-> eval, depth |-> depth, genbound |-> genbound]

\* AtomicU64::default(): the all-zero word
EmptyEntry == TTEntry(0, 0, 0, 0, 0)

\* Option<TTEntry>
None == [some |-> FALSE, e |-> EmptyEntry]

Some(entry) == [some |-> TRUE, e |-> entry]

\* The 64-bit position hash is scaled to HashBits bits (TLC's integers are
\* 32-bit); the code uses its low 16 bits (key16) and, through the
\* multiply-shift of mul_hi_64, its high bits (the cluster).
HashBits == 20

\* The number of clusters of the table (TTable::new: mb_size * 2^20 / 32).
ClusterCount == 2

mul_hi_64(x, y) == (x * y) \div Pow2(HashBits)

get_cluster_idx(hash) == mul_hi_64(hash, ClusterCount)

Key16Of(hash) == U16(hash)

Clusters == 0 .. (ClusterCount - 1)

Slots == 0 .. (CLUSTER_SIZE - 1)

EmptyTable == [c \in Clusters |-> [i \in Slots |-> EmptyEntry]]

\* TTable::entry_age
entry_age(gen, entry) ==
    LET age == U8(BitAnd(GEN_CYCLE + gen - entry.genbound, GEN_MASK))
    IN  U8(entry.depth + 256 - age)

\* The generation refresh of probe, keeping the generation bits alone.
RefreshedGenOnly(gen, entry) == [entry EXCEPT !.genbound = gen]

\* The generation refresh of probe: gen8 | (genbound & (GEN_DELTA - 1))
Refreshed(gen, entry) ==
    [entry EXCEPT !.genbound = BitOr(gen, BitAnd(entry.genbound, GEN_DELTA - 1))]

\* The test of probe that takes a slot as the probed position's.
ProbeTakes(entry, key16) == (entry.key16 = key16) \/ entry.depth # 0

\* probe's replacement candidate (replace_idx, replace_entry) after it has
\* looked at the entry of slot idx and not taken it.
ReplaceAfter(gen, idx, entry, replace_idx, replace_entry) ==
    IF replace_entry.some
    THEN IF entry_age(gen, replace_entry.e) > entry_age(gen, entry)
         THEN <<idx, Some(entry)>>
         ELSE <<replace_idx, replace_entry>>
    ELSE <<replace_idx, Some(entry)>>

\* probe's loop over the cluster's slots, from slot idx on, with the
\* replacement candidate so far; the result is probe's return value and the
\* table after its write-back.
RECURSIVE ProbeScan(_, _, _, _, _, _, _)
ProbeScan(tab, gen, cluster_idx, key16, idx, replace_idx, replace_entry) ==
    IF idx = CLUSTER_SIZE
    THEN [res |-> None, handle |-> <<cluster_idx, replace_idx>>, table |-> tab]
    ELSE LET entry == tab[cluster_idx][idx] IN
         IF ProbeTakes(entry, key16)
         THEN LET e == Refreshed(gen, entry) IN
              [res |-> IF e.depth # 0 THEN Some(e) ELSE None,
               handle |-> <<cluster_idx, idx>>,
               table |-> [tab EXCEPT ![cluster_idx][idx] = e]]
         ELSE LET r == ReplaceAfter(gen, idx, entry, replace_idx, replace_entry)
              IN  ProbeScan(tab, gen, cluster_idx, key16, idx + 1, r[1], r[2])

\* TTable::probe
ProbeOp(tab, gen, hash) ==
    ProbeScan(tab, gen, get_cluster_idx(hash), Key16Of(hash), 0, 0, None)

\* The entry save builds
NewEntry(gen, hash, mv, eval, depth, et) ==
    TTEntry(Key16Of(hash), Move16Of(mv), eval, depth, BitOr(gen, et))

\* TTable::save, replacing on an equal depth too.
SaveOpTies(tab, gen, handle, hash, mv, eval, depth, et) ==
    LET entry == tab[handle[1]][handle[2]] IN
    IF depth >= entry.depth
    THEN [tab EXCEPT ![handle[1]][handle[2]] = NewEntry(gen, hash, mv, eval, depth, et)]
    ELSE tab

\* TTable::save
SaveOp(tab, gen, handle, hash, mv, eval, depth, et) ==
    LET entry == tab[handle[1]][handle[2]] IN
    IF depth > entry.depth
    THEN [tab EXCEPT ![handle[1]][handle[2]] = NewEntry(gen, hash, mv, eval, depth, et)]
    ELSE tab

\* TTable::new_search
NextGen(gen) == U8(gen + GEN_DELTA)

(***************************************************************************)
(* SpecTT: one thread using the table.  A position is known to the table   *)
(* by its hash alone.  save is called with the handle an earlier probe of  *)
(* the same position returned (search code keeps the handle across the     *)
(* probes and saves of the subtree in between).                            *)
(***************************************************************************)
\* Two positions of cluster 0 with different key16, one of cluster 1 that
\* shares its key16 with the first.
Hashes == {1, 2, Pow2(HashBits - 1) + 1}

\* The (move, score, entry type) triples save is called with.
SaveArgs ==
    { [mv |-> ChessMove(0, 1, NoPiece), eval |-> 10, et |-> Pv],
      [mv |-> ChessMove(52, 60, 4), eval |-> -20, et |-> Cut] }

\* SpecTTFill: positions of one cluster with different key16.
FillHashes == 1 .. 6

\* SpecTTFill: the depth of the first CLUSTER_SIZE saves, and of the one after.
FillDepth == 3

FifthDepth == 5

\* The largest depth a save is called with.
MaxDepth == 2

\* The number of new_search calls.
MaxSearches == 1

VARIABLES
    table,      \* TTable.table: cluster -> slot -> TTEntry
    gen8,       \* TTable.gen8
    handleOf,   \* the handle the caller holds for each position, from its last probe
    ttLast,     \* the last call: its arguments, its result, the slot it found
    lastSave,   \* the last call of save, while no other save has followed
    stored,     \* SpecTTFill: the positions stored so far, in order
    fpc,        \* SpecTTFill: where the filling thread is
    cm,         \* SpecMove16: the library move
    mv16,       \* SpecMove16: its Move16
    back,       \* SpecMove16: the library move read back from mv16
    mpc,        \* SpecMove16: the conversions done so far
    wpc,        \* SpecTTConc: where each thread is in its probe or save
    wloc,       \* SpecTTConc: each thread's locals of the call it is in
    wh,         \* SpecTTConc: the handle each thread holds, from its last probe
    wret,       \* SpecTTConc: what each thread's last probe returned
    written,    \* SpecTTConc: the fields of every entry a save has stored
    ncalls,     \* SpecTTConc: the number of calls made
    evotes,     \* SpecElect: the votes of the workers, in worker order
    echecked,   \* SpecElect: whether the build checks arithmetic overflow
    eres,       \* SpecElect: what elect_best_move came to
    pc,         \* SpecPool: where each worker thread is in idle() and search()
    midx,       \* SpecPool: the worker the main worker's loop over the pool is at
    searching,  \* _WorkerThread.searching
    exit,       \* _WorkerThread.exit
    lock,       \* _WorkerThread.lock: the thread holding it
    cvq,        \* _WorkerThread.cv: the threads blocked in a wait on it
    rd,         \* _WorkerThread.root_data: the RootData
    rdlock,     \* _WorkerThread.root_data: the thread holding the mutex
    poisoned,   \* _WorkerThread.root_data: whether a holder has panicked
    stop,       \* ThreadPool.stop
    fault,      \* SpecPool: the panic each thread has died of
    nbest,      \* SpecPool: the bestmove messages sent on tx
    cpc,        \* SpecPool: where the controller is in the call it is making
    cidx,       \* SpecPool: the worker the controller's loop over the pool is at
    cboard,     \* SpecPool: the board of the controller's start_thinking
    gos,        \* SpecPool: the number of calls of start_thinking
    golimit,    \* SpecPool: the number of calls of start_thinking looked at
    ech,        \* Engine.channel_rx: the messages sent and not yet received
    eboard,     \* Engine.board
    ecache,     \* Engine.cache: whether it is Some
    ebest,      \* Engine.best_move
    esearcher,  \* Engine.searcher: the search it is the handle of, 0 for None
    etimed,     \* SearchHandle.search_length: whether it is Some
    epc,        \* SpecEngine: where the controller's thread is in run()
    sthr,       \* SpecEngine: the search threads spawned: stop flag, position
    egos,       \* SpecEngine: the number of SearchHandles made
    eprinted,   \* SpecEngine: the bestmove lines printed since the last go
    nuci,       \* SpecEngine: the number of messages the front end has sent
    abcall,     \* SpecAlphaBeta: the last call made and its arguments
    abcache,    \* SpecAlphaBeta: the cache's entry for the position searched
    abret,      \* SpecAlphaBeta: what the last call returned
    asp         \* SpecAspire: the locals of search() and the worker's RootData

ttVars == <<table, gen8, handleOf, ttLast, lastSave>>

fillVars == <<stored, fpc>>

mvVars == <<cm, mv16, back, mpc>>

concVars == <<wpc, wloc, wh, wret, written, ncalls>>

elVars == <<evotes, echecked, eres>>

workerVars == <<pc, midx, searching, exit, lock, cvq, rd, rdlock, poisoned, fault>>

poolVars == <<workerVars, stop, nbest, cpc, cidx, cboard, gos, golimit>>

engVars == <<ech, eboard, ecache, ebest, esearcher, etimed, epc, sthr, egos, eprinted, nuci>>

abVars == <<abcall, abcache, abret, asp>>

vars == <<ttVars, fillVars, mvVars, concVars, elVars, poolVars, engVars, abVars>>

\* What each specification leaves alone.
outsideTT == <<fillVars, mvVars, concVars, elVars, poolVars, engVars, abVars>>

outsideFill == <<mvVars, concVars, elVars, poolVars, engVars, abVars>>

outsideMove16 == <<fillVars, concVars, elVars, poolVars, engVars, abVars>>

outsideConc == <<handleOf, ttLast, lastSave, fillVars, mvVars, elVars, poolVars, engVars, abVars>>

outsideElect == <<ttVars, fillVars, mvVars, concVars, poolVars, engVars, abVars>>

NoCall ==
    [op |-> "none", hash |-> 0, res |-> None, handle |-> <<0, 0>>,
     mv |-> 0, eval |-> 0, depth |-> 0, et |-> 0, old |-> EmptyEntry]

NoSave == [valid |-> FALSE, call |-> NoCall]

NoHandle == [some |-> FALSE, h |-> <<0, 0>>]

TTIdle ==
    /\ table = EmptyTable
    /\ gen8 = 0
    /\ handleOf = [h \in Hashes \cup FillHashes |-> NoHandle]
    /\ ttLast = NoCall
    /\ lastSave = NoSave

FillIdle ==
    /\ stored = <<>>
    /\ fpc = "idle"

Mv16Idle ==
    /\ cm = ChessMove(0, 0, NoPiece)
    /\ mv16 = 0
    /\ back = ChessMove(0, 0, NoPiece)
    /\ mpc = "off"

\* The number of threads of SpecTTConc.
NThreads == 2

Threads == 1 .. NThreads

NoLocals ==
    [hash |-> 0, idx |-> 0, entry |-> EmptyEntry, replace_idx |-> 0,
     replace_entry |-> None, call |-> NoCall]

NoHeld == [some |-> FALSE, hash |-> 0, h |-> <<0, 0>>]

ConcIdle ==
    /\ wpc = [w \in Threads |-> "idle"]
    /\ wloc = [w \in Threads |-> NoLocals]
    /\ wh = [w \in Threads |-> NoHeld]
    /\ wret = [w \in Threads |-> None]
    /\ written = {}
    /\ ncalls = 0

\* ---- The thread pool: the values of its state ----

NWorkers == 2

Workers == 0 .. NWorkers - 1

Main == 0

Helpers == 1 .. NWorkers - 1

\* The thread of the engine controller, which calls the pool.
Ctl == NWorkers

Free == -1

SCORE_INF == 32001

SCORE_MATE == 32000

\* The positions searched: the default board, with two legal moves, and one
\* that is checkmate or stalemate, with none.
Boards == {"Start", "Mated"}

\* A position with three legal moves, whose values differ from one search to
\* the next.
RootBoards == Boards \cup {"Sharp"}

LegalMoves(board) ==
    CASE board = "Start" -> <<"a", "b">>
      [] board = "Mated" -> <<>>
      [] board = "Sharp" -> <<"a", "b", "c">>

EvalMove(mv, eval) == [mv |-> mv, eval |-> eval]

NoMove == [some |-> FALSE, mv |-> "none", eval |-> 0]

SomeMove(em) == [some |-> TRUE, mv |-> em.mv, eval |-> em.eval]

DefaultRootData ==
    [board |-> "Start", moves |-> <<>>, best_move |-> NoMove,
     root_depth |-> 0, completed_depth |-> 0]

\* RootData::populate: clear() resets the two depths and nothing else, and the
\* legal moves are appended to the list.
Populate(data, board) ==
    [data EXCEPT !.root_depth = 0,
                 !.completed_depth = 0,
                 !.board = board,
                 !.moves = @ \o [k \in 1 .. Len(LegalMoves(board)) |->
                                    EvalMove(LegalMoves(board)[k], -SCORE_INF)]]

\* ThreadPool::new, before init has spawned the workers.
PoolIdle ==
    /\ pc = [w \in Workers |-> "unspawned"]
    /\ midx = 0
    /\ searching = [w \in Workers |-> TRUE]
    /\ exit = [w \in Workers |-> FALSE]
    /\ lock = [w \in Workers |-> Free]
    /\ cvq = [w \in Workers |-> {}]
    /\ rd = [w \in Workers |-> DefaultRootData]
    /\ rdlock = [w \in Workers |-> Free]
    /\ poisoned = [w \in Workers |-> FALSE]
    /\ fault = [t \in Workers \cup {Ctl} |-> "none"]
    /\ stop = FALSE
    /\ nbest = 0
    /\ cpc = "uninit"
    /\ cidx = 0
    /\ cboard = "Start"
    /\ gos = 0
    /\ golimit = 0


\* ---- The controller (src/src/engine/mod.rs): the values of its state ----

\* The largest number of go messages the front end sends.
MaxEGo == 2

Searches == 1 .. MaxEGo

\* A search thread not yet spawned.
NoThread == [pc |-> "unspawned", stop |-> FALSE, board |-> "none", iters |-> 0,
             hasbest |-> FALSE]

\* Engine::default, before Engine::start.
EngineIdle ==
    /\ ech = <<>>
    /\ eboard = "none"
    /\ ecache = FALSE
    /\ ebest = "none"
    /\ esearcher = 0
    /\ etimed = FALSE
    /\ epc = "unstarted"
    /\ sthr = [i \in Searches |-> NoThread]
    /\ egos = 0
    /\ eprinted = 0
    /\ nuci = 0


\* ---- The search of src/src/engine/search.rs: the values of its state ----

\* static SCORE_MATE: i32 of search.rs, where Eval is i32.
SCORE_MATE_I32 == 10000000

\* No call made yet.
NoAbCall == [fn |-> "none", status |-> "none", cur_eval |-> 0, alpha |-> 0, beta |-> 0,
           depth |-> 0, root_distance |-> 0]

\* lock.get(&board) is None.
NoEntry == [some |-> FALSE, eval |-> 0, old_depth |-> 0]

\* search() not entered.
NoAsp == [pc |-> "none"]

\* Before any search.
AbIdle ==
    /\ abcall = NoAbCall
    /\ abcache = NoEntry
    /\ abret = 0
    /\ asp = NoAsp

NotElected == [status |-> "none", mv |-> "none"]

ElectIdle ==
    /\ evotes = <<>>
    /\ echecked = FALSE
    /\ eres = NotElected

InitTT == TTIdle /\ FillIdle /\ Mv16Idle /\ ConcIdle /\ ElectIdle /\ PoolIdle /\ EngineIdle /\ AbIdle

\* probe(board)
TTProbe(hash) ==
    LET r == ProbeOp(table, gen8, hash) IN
    /\ table' = r.table
    /\ handleOf' = [handleOf EXCEPT ![hash] = [some |-> TRUE, h |-> r.handle]]
    /\ ttLast' = [NoCall EXCEPT !.op = "probe", !.hash = hash, !.res = r.res,
                                !.handle = r.handle]
    /\ UNCHANGED <<gen8, lastSave>>

\* save(handle, board, mv, eval, depth, et)
TTSave(hash, mv, eval, depth, et) ==
    /\ handleOf[hash].some
    /\ LET h == handleOf[hash].h
           call == [NoCall EXCEPT !.op = "save", !.hash = hash, !.handle = h,
                                  !.mv = Move16Of(mv), !.eval = eval, !.depth = depth,
                                  !.et = et, !.old = table[h[1]][h[2]]]
       IN  /\ table' = SaveOp(table, gen8, h, hash, mv, eval, depth, et)
           /\ ttLast' = call
           /\ lastSave' = [valid |-> TRUE, call |-> call]
    /\ UNCHANGED <<gen8, handleOf>>

\* new_search()
TTNewSearch ==
    /\ gen8 < MaxSearches * GEN_DELTA
    /\ gen8' = NextGen(gen8)
    /\ ttLast' = [NoCall EXCEPT !.op = "new_search"]
    /\ UNCHANGED <<table, handleOf, lastSave>>

Probe(hash) == TTProbe(hash) /\ UNCHANGED outsideTT

Save(hash, mv, eval, depth, et) ==
    TTSave(hash, mv, eval, depth, et) /\ UNCHANGED outsideTT

NewSearch == TTNewSearch /\ UNCHANGED outsideTT

NextTT ==
    \/ \E hash \in Hashes : Probe(hash)
    \/ \E hash \in Hashes, a \in SaveArgs, depth \in 1 .. MaxDepth :
            Save(hash, a.mv, a.eval, depth, a.et)
    \/ NewSearch

SpecTT == InitTT /\ [][NextTT]_vars

\* The (key16, mv, eval, depth, entry type) of an entry: all but its generation.
Fields(e) == <<e.key16, e.mv, e.eval, e.depth, BitAnd(e.genbound, GEN_DELTA - 1)>>

\* The fields a call of save writes.
FieldsOfCall(c) == <<Key16Of(c.hash), c.mv, c.eval, c.depth, c.et>>

(* C1: probe returns Some(entry) only for a slot whose key16 is the probed
   position's and whose depth is not zero: an entry of another key16 is never
   returned as a hit. *)
C1_ProbeHitHasProbedKey ==
    (ttLast.op = "probe" /\ ttLast.res.some)
        => /\ ttLast.res.e.key16 = Key16Of(ttLast.hash)
           /\ ttLast.res.e.depth # 0

\* The last call is a probe of the position the last save was called for.
ProbeAfterSave ==
    /\ ttLast.op = "probe"
    /\ lastSave.valid
    /\ lastSave.call.hash = ttLast.hash

\* The probe returned the entry the last save was called to write.
ProbeReturnsSaved ==
    /\ ttLast.res.some
    /\ Fields(ttLast.res.e) = FieldsOfCall(lastSave.call)

(* C2, as claimed: after save(h, B, mv, eval, d, et) with d >= 1, h from a
   probe of B, and no other save since, probe(B) returns the saved fields,
   whatever the table held before. *)
C2_SaveThenProbe_AnyContents ==
    (ProbeAfterSave /\ lastSave.call.depth >= 1) => ProbeReturnsSaved

(* C2, amended: the same, for a save whose depth is greater than the depth
   the slot h held when save was called. *)
C2_SaveThenProbe ==
    (ProbeAfterSave /\ lastSave.call.depth > lastSave.call.old.depth)
        => ProbeReturnsSaved

\* C2's case: the save replaced the entry of another position, a new search
\* began, and the position was probed again.
C2_Witness ==
    /\ ProbeAfterSave
    /\ lastSave.call.depth > lastSave.call.old.depth
    /\ lastSave.call.old.depth # 0
    /\ lastSave.call.old.key16 # Key16Of(ttLast.hash)
    /\ ttLast.res.e.genbound >= GEN_DELTA
    /\ ProbeReturnsSaved

(* C4: save overwrites the slot its handle names if and only if the new depth
   is greater than the depth the slot holds; otherwise (an equal depth too)
   the slot is left as it was; every other slot is left as it was. *)
C4_SaveFrame ==
    [][ttLast'.op = "save" =>
        LET c == ttLast'
            h == c.handle
            old == table[h[1]][h[2]]
        IN  /\ \A cl \in Clusters, i \in Slots :
                   <<cl, i>> # h => table'[cl][i] = table[cl][i]
            /\ IF c.depth > old.depth
               THEN /\ Fields(table'[h[1]][h[2]]) = FieldsOfCall(c)
                    /\ table'[h[1]][h[2]] # old
               ELSE table'[h[1]][h[2]] = old
       ]_vars

\* C4's case: a save at the depth the slot already holds, for another move.
C4_Witness ==
    /\ ttLast.op = "save"
    /\ ttLast.depth = ttLast.old.depth
    /\ ttLast.mv # ttLast.old.mv
    /\ table[ttLast.handle[1]][ttLast.handle[2]] = ttLast.old

(***************************************************************************)
(* SpecTTFill: one thread stores positions of one cluster, each by a probe *)
(* and a save with the handle the probe returned: CLUSTER_SIZE positions   *)
(* at FillDepth, then one more at FifthDepth, which it then probes again.  *)
(* new_search may be called between the stores.                            *)
(***************************************************************************)
InitTTFill == TTIdle /\ FillIdle /\ Mv16Idle /\ ConcIdle /\ ElectIdle /\ PoolIdle /\ EngineIdle /\ AbIdle

\* probe(board) of a position not stored yet
FillProbe(hash) ==
    /\ fpc = "idle"
    /\ Len(stored) <= CLUSTER_SIZE
    /\ \A k \in 1 .. Len(stored) : stored[k] # hash
    /\ TTProbe(hash)
    /\ fpc' = "probed"
    /\ UNCHANGED <<stored, outsideFill>>

\* save(handle, board, mv, eval, depth, et) with the handle of the probe before
FillSave(a) ==
    /\ fpc = "probed"
    /\ LET depth == IF Len(stored) < CLUSTER_SIZE THEN FillDepth ELSE FifthDepth
       IN  TTSave(ttLast.hash, a.mv, a.eval, depth, a.et)
    /\ stored' = Append(stored, ttLast.hash)
    /\ fpc' = "idle"
    /\ UNCHANGED outsideFill

\* new_search() between two stores
FillNewSearch ==
    /\ fpc = "idle"
    /\ TTNewSearch
    /\ UNCHANGED <<stored, fpc, outsideFill>>

\* probe(board) of the position stored last
FillProbeAgain ==
    /\ fpc = "idle"
    /\ Len(stored) = CLUSTER_SIZE + 1
    /\ TTProbe(stored[CLUSTER_SIZE + 1])
    /\ fpc' = "done"
    /\ UNCHANGED <<stored, outsideFill>>

NextTTFill ==
    \/ \E hash \in FillHashes : FillProbe(hash)
    \/ \E a \in SaveArgs : FillSave(a)
    \/ FillNewSearch
    \/ FillProbeAgain

SpecTTFill == InitTTFill /\ [][NextTTFill]_vars

\* The slots of position hash's cluster that hold its key16.
SlotsOf(hash) ==
    {i \in Slots : /\ table[get_cluster_idx(hash)][i].key16 = Key16Of(hash)
                   /\ table[get_cluster_idx(hash)][i].depth # 0}

(* C3: once CLUSTER_SIZE positions of one cluster with different key16 are
   stored (probe, then save at FillDepth), the cluster holds them all; a
   further position saved at FifthDepth evicts exactly one of them and is
   then returned by probe. *)
C3_ClusterHoldsFour ==
    /\ (Len(stored) = CLUSTER_SIZE /\ fpc = "idle")
          => \A k \in 1 .. CLUSTER_SIZE : SlotsOf(stored[k]) # {}
    /\ (fpc = "done")
          => /\ ttLast.res.some
             /\ ttLast.res.e.key16 = Key16Of(stored[CLUSTER_SIZE + 1])
             /\ ttLast.res.e.depth = FifthDepth
             /\ Cardinality({k \in 1 .. CLUSTER_SIZE : SlotsOf(stored[k]) = {}}) = 1

(***************************************************************************)
(* SpecMove16: every real move (source and destination differ, any         *)
(* promotion piece or none) is converted to Move16 and back, as            *)
(* test_move_conversion does, and then saved into the empty table.         *)
(***************************************************************************)
RealMoves ==
    {ChessMove(src, dest, promotion) :
        src \in Squares, dest \in Squares, promotion \in PromotionPieces \cup {NoPiece}}
    \ {ChessMove(sq, sq, promotion) :
        sq \in Squares, promotion \in PromotionPieces \cup {NoPiece}}

InitMove16 ==
    /\ TTIdle
    /\ FillIdle
    /\ ConcIdle
    /\ ElectIdle
    /\ PoolIdle /\ EngineIdle /\ AbIdle
    /\ cm \in RealMoves
    /\ mv16 = 0
    /\ back = ChessMove(0, 0, NoPiece)
    /\ mpc = "start"

\* let mv16: Move16 = mv.into();
Encode ==
    /\ mpc = "start"
    /\ mv16' = Move16Of(cm)
    /\ mpc' = "encoded"
    /\ UNCHANGED <<cm, back, ttVars, outsideMove16>>

\* let chess_move: ChessMove = mv16.into();
Decode ==
    /\ mpc = "encoded"
    /\ back' = ChessMoveOf(mv16)
    /\ mpc' = "decoded"
    /\ UNCHANGED <<cm, mv16, ttVars, outsideMove16>>

\* probe(board), for the handle
ProbeForMove(hash) ==
    /\ mpc = "decoded"
    /\ TTProbe(hash)
    /\ mpc' = "probed"
    /\ UNCHANGED <<cm, mv16, back, outsideMove16>>

\* save(handle, board, mv, eval, depth, et)
SaveMove(a, depth) ==
    /\ mpc = "probed"
    /\ TTSave(ttLast.hash, cm, a.eval, depth, a.et)
    /\ mpc' = "saved"
    /\ UNCHANGED <<cm, mv16, back, outsideMove16>>

NextMove16 ==
    \/ Encode
    \/ Decode
    \/ ProbeForMove(1)
    \/ \E a \in SaveArgs, depth \in 1 .. MaxDepth : SaveMove(a, depth)

SpecMove16 == InitMove16 /\ [][NextMove16]_vars

(* C6: for every source square, every other destination square and every
   promotion (none, knight, bishop, rook, queen), the move converted to
   Move16 and back is the move itself. *)
C6_Move16RoundTrip ==
    (mpc \in {"decoded", "probed", "saved"}) => back = cm

\* C6's case: a rook promotion from the last square has gone both ways.
C6_Witness ==
    /\ mpc = "decoded"
    /\ cm = ChessMove(63, 62, 3)
    /\ back = cm

(* C7: the Move16 of a real move is never the all-zero value, and the entry
   save writes for it carries that Move16, so never the no-move value. *)
C7_Move16NeverZero ==
    /\ (mpc # "start") => mv16 # 0
    /\ (mpc = "saved") =>
          LET e == table[ttLast.handle[1]][ttLast.handle[2]]
          IN  e.depth # 0 /\ e.mv = mv16 /\ e.mv # 0

\* C7's case: the move from square 0 with the smallest encoding was saved.
C7_Witness ==
    /\ mpc = "saved"
    /\ cm = ChessMove(0, 1, NoPiece)
    /\ table[0][0].mv = 16

(***************************************************************************)
(* SpecTTConc: several search threads probe and save concurrently.  Every  *)
(* slot is one AtomicU64: a load or a store of a whole entry is one step,  *)
(* and the steps of the threads interleave.  probe is a load per slot and, *)
(* for the slot it takes, a store of the refreshed entry; save is a load   *)
(* and, for a greater depth, a store.  new_search has no caller during a   *)
(* search, so gen8 stays as it is.                                         *)
(***************************************************************************)
\* The number of probe and save calls the threads make in all.
MaxConcCalls == 4

\* The positions the threads search: two of one cluster, with different
\* key16, so that every call works on the same slots.
ConcHashes == {1, 2}

InitTTConc == TTIdle /\ FillIdle /\ Mv16Idle /\ ConcIdle /\ ElectIdle /\ PoolIdle /\ EngineIdle /\ AbIdle

\* probe(board): the call
ProbeCall(w, hash) ==
    /\ wpc[w] = "idle"
    /\ ncalls < MaxConcCalls
    /\ ncalls' = ncalls + 1
    /\ wpc' = [wpc EXCEPT ![w] = "probe_load"]
    /\ wloc' = [wloc EXCEPT ![w] = [NoLocals EXCEPT !.hash = hash]]
    /\ UNCHANGED <<table, gen8, wh, wret, written, outsideConc>>

\* probe: cluster.get_entry(idx) and the test of the entry loaded
ProbeLoad(w) ==
    /\ wpc[w] = "probe_load"
    /\ LET l == wloc[w]
           cluster_idx == get_cluster_idx(l.hash)
           entry == table[cluster_idx][l.idx]
           r == ReplaceAfter(gen8, l.idx, entry, l.replace_idx, l.replace_entry)
       IN  IF ProbeTakes(entry, Key16Of(l.hash))
           THEN /\ wpc' = [wpc EXCEPT ![w] = "probe_store"]
                /\ wloc' = [wloc EXCEPT ![w].entry = Refreshed(gen8, entry)]
                /\ UNCHANGED <<wh, wret>>
           ELSE IF l.idx + 1 < CLUSTER_SIZE
           THEN /\ wloc' = [wloc EXCEPT ![w].idx = l.idx + 1,
                                        ![w].replace_idx = r[1],
                                        ![w].replace_entry = r[2]]
                /\ UNCHANGED <<wpc, wh, wret>>
           ELSE /\ wpc' = [wpc EXCEPT ![w] = "idle"]
                /\ wloc' = [wloc EXCEPT ![w] = NoLocals]
                /\ wret' = [wret EXCEPT ![w] = None]
                /\ wh' = [wh EXCEPT ![w] = [some |-> TRUE, hash |-> l.hash,
                                            h |-> <<cluster_idx, r[1]>>]]
    /\ UNCHANGED <<table, gen8, written, ncalls, outsideConc>>

\* probe: cluster.save_entry(idx, entry) and the return
ProbeStore(w) ==
    /\ wpc[w] = "probe_store"
    /\ LET l == wloc[w]
           cluster_idx == get_cluster_idx(l.hash)
       IN  /\ table' = [table EXCEPT ![cluster_idx][l.idx] = l.entry]
           /\ wret' = [wret EXCEPT ![w] = IF l.entry.depth # 0 THEN Some(l.entry)
                                          ELSE None]
           /\ wh' = [wh EXCEPT ![w] = [some |-> TRUE, hash |-> l.hash,
                                       h |-> <<cluster_idx, l.idx>>]]
    /\ wpc' = [wpc EXCEPT ![w] = "idle"]
    /\ wloc' = [wloc EXCEPT ![w] = NoLocals]
    /\ UNCHANGED <<gen8, written, ncalls, outsideConc>>

\* save(handle, board, mv, eval, depth, et): the call
SaveCall(w, a, depth) ==
    /\ wpc[w] = "idle"
    /\ wh[w].some
    /\ ncalls < MaxConcCalls
    /\ ncalls' = ncalls + 1
    /\ wpc' = [wpc EXCEPT ![w] = "save_load"]
    /\ wloc' = [wloc EXCEPT ![w] =
                  [NoLocals EXCEPT !.hash = wh[w].hash,
                                   !.call = [NoCall EXCEPT !.op = "save",
                                                !.hash = wh[w].hash,
                                                !.handle = wh[w].h,
                                                !.mv = Move16Of(a.mv),
                                                !.eval = a.eval,
                                                !.depth = depth,
                                                !.et = a.et]]]
    /\ UNCHANGED <<table, gen8, wh, wret, written, outsideConc>>

\* save: self.get_entry(handle) and the test of the depth
SaveLoad(w) ==
    /\ wpc[w] = "save_load"
    /\ LET c == wloc[w].call
           entry == table[c.handle[1]][c.handle[2]]
       IN  IF c.depth > entry.depth
           THEN /\ wpc' = [wpc EXCEPT ![w] = "save_store"]
                /\ wloc' = [wloc EXCEPT ![w].entry =
                              TTEntry(Key16Of(c.hash), c.mv, c.eval, c.depth,
                                      BitOr(gen8, c.et))]
           ELSE /\ wpc' = [wpc EXCEPT ![w] = "idle"]
                /\ wloc' = [wloc EXCEPT ![w] = NoLocals]
    /\ UNCHANGED <<table, gen8, wh, wret, written, ncalls, outsideConc>>

\* save's store done as two 32-bit halves, the second never made.
SaveStoreHalf(w) ==
    /\ wpc[w] = "save_store"
    /\ LET c == wloc[w].call
           new == wloc[w].entry
       IN  /\ table' = [table EXCEPT ![c.handle[1]][c.handle[2]].key16 = new.key16,
                                     ![c.handle[1]][c.handle[2]].mv = new.mv]
           /\ written' = written \cup {FieldsOfCall(c)}
    /\ wpc' = [wpc EXCEPT ![w] = "idle"]
    /\ wloc' = [wloc EXCEPT ![w] = NoLocals]
    /\ UNCHANGED <<gen8, wh, wret, ncalls, outsideConc>>

\* save: self.save_entry(handle, new)
SaveStore(w) ==
    /\ wpc[w] = "save_store"
    /\ LET c == wloc[w].call
       IN  /\ table' = [table EXCEPT ![c.handle[1]][c.handle[2]] = wloc[w].entry]
           /\ written' = written \cup {FieldsOfCall(c)}
    /\ wpc' = [wpc EXCEPT ![w] = "idle"]
    /\ wloc' = [wloc EXCEPT ![w] = NoLocals]
    /\ UNCHANGED <<gen8, wh, wret, ncalls, outsideConc>>

NextTTConc ==
    \/ \E w \in Threads, hash \in ConcHashes : ProbeCall(w, hash)
    \/ \E w \in Threads : ProbeLoad(w)
    \/ \E w \in Threads : ProbeStore(w)
    \/ \E w \in Threads, a \in SaveArgs, depth \in 1 .. MaxDepth : SaveCall(w, a, depth)
    \/ \E w \in Threads : SaveLoad(w)
    \/ \E w \in Threads : SaveStore(w)

SpecTTConc == InitTTConc /\ [][NextTTConc]_vars

\* The entry is empty or carries the fields one save call stored.
OneWrite(e) == e = EmptyEntry \/ Fields(e) \in written

(* C5: under any interleaving of the threads' probes and saves, every value
   a slot holds, every value a probe has loaded and every value a probe
   returns is the empty entry or carries the (key16, mv, eval, depth, entry
   type) one single save call stored: fields of two writes are never mixed. *)
C5_NoTornEntry ==
    /\ \A c \in Clusters, i \in Slots : OneWrite(table[c][i])
    /\ \A w \in Threads :
          /\ wret[w].some => OneWrite(wret[w].e)
          /\ wpc[w] = "probe_store" => OneWrite(wloc[w].entry)

\* C5's case: a probe returned an entry of another thread's save while the
\* slot already holds the entry of a later save.
C5_Witness ==
    \E w \in Threads :
        /\ wret[w].some
        /\ LET h == wh[w].h IN
           /\ table[h[1]][h[2]] # EmptyEntry
           /\ Fields(table[h[1]][h[2]]) # Fields(wret[w].e)
           /\ Cardinality(written) >= 2

(***************************************************************************)
(* Move election: threads.rs 430-451.  Eval is a signed 16-bit integer     *)
(* (TTEntry, 8 bytes, holds it in two), so `score - min_score + 14` is     *)
(* 16-bit arithmetic: on overflow a build with overflow checks panics and  *)
(* a build without them wraps.                                             *)
(***************************************************************************)
\* i16 wrap-around
I16(x) == ((x + 32768) % 65536) - 32768

InI16(x) == -32768 <= x /\ x <= 32767

RECURSIVE SeqMin(_)
SeqMin(scores) ==
    IF Len(scores) = 1 THEN scores[1]
    ELSE LET m == SeqMin(Tail(scores)) IN IF scores[1] < m THEN scores[1] ELSE m

\* votes.iter().map(|(_, score, _)| score).min()
MinScore(votes) == SeqMin([k \in 1 .. Len(votes) |-> votes[k].score])

\* (score - min_score + 14) as i32 * depth as i32, computed without bound
ExactWeight(vote, min_score) == (vote.score - min_score + 14) * vote.depth

\* whether score - min_score + 14 leaves i16
WeightOverflows(vote, min_score) ==
    ~InI16(vote.score - min_score) \/ ~InI16(vote.score - min_score + 14)

\* (score - min_score + 14) as i32 * depth as i32, in a build that wraps
VoteWeight(vote, min_score) ==
    I16(I16(vote.score - min_score) + 14) * vote.depth

RECURSIVE SumFor(_, _, _, _)
SumFor(Weight(_, _), votes, min_score, mv) ==
    IF votes = <<>> THEN 0
    ELSE (IF votes[1].mv = mv THEN Weight(votes[1], min_score) ELSE 0)
         + SumFor(Weight, Tail(votes), min_score, mv)

Voted(votes) == {votes[k].mv : k \in 1 .. Len(votes)}

\* election: the HashMap of summed weights; max_by_key takes a move of the
\* greatest sum, any of them when several share it.
Winners(Weight(_, _), votes) ==
    LET min_score == MinScore(votes)
        total(mv) == SumFor(Weight, votes, min_score, mv)
    IN  {mv \in Voted(votes) : \A other \in Voted(votes) : total(other) <= total(mv)}

\* ThreadPool::elect_best_move: the outcomes of a call with these votes
ElectOutcomes(votes, checked) ==
    IF votes = <<>>
    THEN {[status |-> "panic", mv |-> "none"]}
    ELSE IF checked /\ \E k \in 1 .. Len(votes) : WeightOverflows(votes[k], MinScore(votes))
    THEN {[status |-> "panic", mv |-> "none"]}
    ELSE {[status |-> "ok", mv |-> mv] : mv \in Winners(VoteWeight, votes)}

(***************************************************************************)
(* SpecElect: elect_best_move called with any votes of up to MaxVoters     *)
(* workers.                                                                *)
(***************************************************************************)
\* The largest number of workers that vote.
MaxVoters == 2

ElectMoves == {"m1", "m2"}

\* A queen down, the two scores of the spec's example, and a mate in one.
ElectScores == {-800, 40, 50, 31999}

ElectDepths == {0, 1, 10}

Votes ==
    [mv : ElectMoves, score : ElectScores, depth : ElectDepths]

RECURSIVE SeqsUpTo(_, _)
SeqsUpTo(S, n) ==
    IF n = 0 THEN {<<>>}
    ELSE LET shorter == SeqsUpTo(S, n - 1)
         IN  shorter \cup {Append(q, x) : q \in {r \in shorter : Len(r) = n - 1}, x \in S}

InitElect ==
    /\ TTIdle /\ FillIdle /\ Mv16Idle /\ ConcIdle /\ PoolIdle /\ EngineIdle /\ AbIdle
    /\ evotes \in SeqsUpTo(Votes, MaxVoters)
    /\ echecked \in BOOLEAN
    /\ eres = NotElected

\* THREADS.elect_best_move()
Elect ==
    /\ eres.status = "none"
    /\ eres' \in ElectOutcomes(evotes, echecked)
    /\ UNCHANGED <<evotes, echecked, outsideElect>>

NextElect == Elect

SpecElect == InitElect /\ [][NextElect]_vars

(* C8: elect_best_move returns a move whose summed weight is greatest, each
   vote giving (score - min_score + 14) * completed_depth to its move; with
   the votes (m1, 50, 10) and (m2, 40, 10) it returns m1, and with a single
   vote it returns that vote's move. *)
C8_ElectionMaximal ==
    (eres.status # "none" /\ evotes # <<>>)
        => /\ eres.status = "ok"
           /\ eres.mv \in Winners(ExactWeight, evotes)

\* ---- SpecPool: the worker threads, from ThreadPool::init on ----

MaxRootDepth == 2

MaxGo == 2

\* The scores a root move is given by a search.
PoolEvals == {25}

\* The values of the moves of the position with three.
SharpEvals == {25, 40}

\* -search::alphabeta(pos, -beta, -alpha, depth - 1, 1): the values the search
\* below a root move of the board can return.
SearchValues(board) == IF board = "Sharp" THEN SharpEvals ELSE PoolEvals

ctlVars == <<cpc, cidx, cboard, gos, golimit>>

outsidePool == <<ttVars, fillVars, mvVars, concVars, echecked, engVars, abVars>>

\* A wait that never finds the worker searching.
NeverSearching(w) == FALSE

\* Worker::wait: the condition of wait_while, data.searching.load().
StillSearching(w) == searching[w]

\* A notify that wakes no thread.
NotifyNone(q) == {q}

\* Condvar::notify_one: one of the threads blocked on the condvar, if any,
\* leaves the wait.
NotifyOne(q) == IF q = {} THEN {q} ELSE {q \ {t} : t \in q}

\* A panic of thread t: it unwinds, and a root_data mutex it holds is
\* released poisoned.
Panic(t, why) ==
    /\ fault' = [fault EXCEPT ![t] = why]
    /\ rdlock' = [w \in Workers |-> IF rdlock[w] = t THEN Free ELSE rdlock[w]]
    /\ poisoned' = [w \in Workers |-> poisoned[w] \/ rdlock[w] = t]

RECURSIVE InsertByKeyReverse(_, _)
InsertByKeyReverse(em, sorted) ==
    IF sorted = <<>> THEN <<em>>
    ELSE IF Head(sorted).eval <= em.eval THEN <<em>> \o sorted
    ELSE <<Head(sorted)>> \o InsertByKeyReverse(em, Tail(sorted))

\* A sort that leaves the list as it is.
KeepOrder(moves) == moves

\* moves.sort_by_key(|&em| Reverse(em)): stable, greatest eval first.
RECURSIVE SortByKeyReverse(_)
SortByKeyReverse(moves) ==
    IF moves = <<>> THEN <<>>
    ELSE InsertByKeyReverse(Head(moves), SortByKeyReverse(Tail(moves)))

IsLegal(board, mv) == \E k \in 1 .. Len(LegalMoves(board)) : LegalMoves(board)[k] = mv

\* //mate pruning: the window after a move, or "return" where the code returns.
MatePruned(alpha, beta) ==
    LET beta2 == IF SCORE_MATE < beta THEN SCORE_MATE ELSE beta
        alpha2 == IF -SCORE_MATE > alpha THEN -SCORE_MATE ELSE alpha
    IN  [return |-> \/ (SCORE_MATE < beta /\ alpha >= SCORE_MATE)
                    \/ (-SCORE_MATE > alpha /\ beta2 <= -SCORE_MATE),
         alpha |-> alpha2, beta |-> beta2]

\* RootData::root_search on a position that is not over: the loop over
\* self.moves from entry k, up to entry upto where a set stop flag ends it.
\* The value of a move is drawn from SearchValues(board). The result is the set of the
\* move lists the loop can leave.
RECURSIVE RootScan(_, _, _, _, _, _, _)
RootScan(board, moves, k, upto, alpha, beta, mx) ==
    IF k > upto THEN {moves}
    ELSE IF ~IsLegal(board, moves[k].mv)
    THEN RootScan(board, moves, k + 1, upto, alpha, beta, mx)
    ELSE UNION {
        LET improves == value > mx
            scored == [moves EXCEPT ![k].eval =
                          IF value > alpha /\ (value >= beta \/ improves)
                          THEN value ELSE -SCORE_INF]
            alpha1 == IF improves /\ value > alpha THEN value ELSE alpha
            pruned == MatePruned(alpha1, beta)
        IN  IF value >= beta \/ pruned.return
            THEN {scored}
            ELSE RootScan(board, scored, k + 1, upto, pruned.alpha, pruned.beta,
                          IF improves THEN value ELSE mx)
        : value \in SearchValues(board)}

\* The move lists root_search can leave when called with the full window
\* (depth < 4 in search()), having looked at the first upto moves; none is
\* touched when the position is checkmate or stalemate.
RootSearchOutcomes(data, upto) ==
    IF LegalMoves(data.board) = <<>> THEN {data.moves}
    ELSE RootScan(data.board, data.moves, 1, upto, -SCORE_INF, SCORE_INF, -SCORE_INF)

\* idle(): lock.lock(); searching.store(false); cv.notify_one()
IdleEnter(w) ==
    /\ pc[w] = "idle_lock"
    /\ lock[w] = Free
    /\ lock' = [lock EXCEPT ![w] = w]
    /\ searching' = [searching EXCEPT ![w] = FALSE]
    /\ \E q \in NotifyOne(cvq[w]) : cvq' = [cvq EXCEPT ![w] = q]
    /\ pc' = [pc EXCEPT ![w] = "idle_pred"]
    /\ UNCHANGED <<midx, exit, rd, rdlock, poisoned, fault, stop, nbest, ctlVars,
                   evotes, eres, outsidePool>>

\* idle(): the condition of wait_while, !(searching || exit); once it fails
\* the guard that wait_while returns is dropped, and the worker returns if
\* exit is set.
IdlePred(w) ==
    /\ pc[w] = "idle_pred"
    /\ IF searching[w] \/ exit[w]
       THEN /\ pc' = [pc EXCEPT ![w] = IF exit[w] THEN "exited" ELSE "search_lock"]
            /\ lock' = [lock EXCEPT ![w] = Free]
       ELSE /\ pc' = [pc EXCEPT ![w] = "idle_block"]
            /\ lock' = lock
    /\ UNCHANGED <<midx, searching, exit, cvq, rd, rdlock, poisoned, fault, stop, nbest,
                   ctlVars, evotes, eres, outsidePool>>

\* idle(): wait_while blocks on cv and releases lock.
IdleBlock(w) ==
    /\ pc[w] = "idle_block"
    /\ lock' = [lock EXCEPT ![w] = Free]
    /\ cvq' = [cvq EXCEPT ![w] = @ \cup {w}]
    /\ pc' = [pc EXCEPT ![w] = "idle_blocked"]
    /\ UNCHANGED <<midx, searching, exit, rd, rdlock, poisoned, fault, stop, nbest,
                   ctlVars, evotes, eres, outsidePool>>

\* idle(): notified, the worker takes lock again and tests the condition.
IdleWake(w) ==
    /\ pc[w] = "idle_blocked"
    /\ w \notin cvq[w]
    /\ lock[w] = Free
    /\ lock' = [lock EXCEPT ![w] = w]
    /\ pc' = [pc EXCEPT ![w] = "idle_pred"]
    /\ UNCHANGED <<midx, searching, exit, cvq, rd, rdlock, poisoned, fault, stop, nbest,
                   ctlVars, evotes, eres, outsidePool>>

\* idle(): root_data.lock().unwrap(); search(): the main worker goes on to
\* wake the others if its move list is not empty.
SearchLock(w) ==
    /\ pc[w] = "search_lock"
    /\ rdlock[w] = Free
    /\ IF poisoned[w]
       THEN /\ Panic(w, "poison")
            /\ pc' = [pc EXCEPT ![w] = "panicked"]
       ELSE /\ rdlock' = [rdlock EXCEPT ![w] = w]
            /\ pc' = [pc EXCEPT ![w] =
                        IF w = Main /\ rd[w].moves # <<>> /\ Helpers # {}
                        THEN "start_helpers" ELSE "search_loop"]
            /\ UNCHANGED <<poisoned, fault>>
    /\ midx' = IF w = Main THEN 1 ELSE midx
    /\ UNCHANGED <<searching, exit, lock, cvq, rd, stop, nbest, ctlVars, evotes, eres,
                   outsidePool>>

\* ThreadPool::start_search: Worker::start_search of the next helper.
StartHelper ==
    /\ pc[Main] = "start_helpers"
    /\ lock[midx] = Free
    /\ searching' = [searching EXCEPT ![midx] = TRUE]
    /\ \E q \in NotifyOne(cvq[midx]) : cvq' = [cvq EXCEPT ![midx] = q]
    /\ midx' = midx + 1
    /\ pc' = [pc EXCEPT ![Main] =
                IF midx + 1 = NWorkers THEN "search_loop" ELSE "start_helpers"]
    /\ UNCHANGED <<exit, lock, rd, rdlock, poisoned, fault, stop, nbest, ctlVars, evotes,
                   eres, outsidePool>>

\* search(): while depth < 255 && !THREADS.stopped(); after the loop a
\* helper returns and idle() drops root_data.
SearchLoop(w) ==
    /\ pc[w] = "search_loop"
    /\ IF rd[w].root_depth < 255 /\ ~stop
       THEN /\ pc' = [pc EXCEPT ![w] = "search_iter"]
            /\ rdlock' = rdlock
       ELSE /\ pc' = [pc EXCEPT ![w] = IF w = Main THEN "spin" ELSE "idle_lock"]
            /\ rdlock' = [rdlock EXCEPT ![w] = IF w = Main THEN @ ELSE Free]
    /\ UNCHANGED <<midx, searching, exit, lock, cvq, rd, poisoned, fault, stop, nbest,
                   ctlVars, evotes, eres, outsidePool>>

\* search(): an iteration that runs to its end with stop not set: the list
\* is sorted, completed_depth is set and best_move taken from moves[0],
\* which panics on an empty list.
IterDone(w) ==
    /\ pc[w] = "search_iter"
    /\ ~stop
    /\ rd[w].root_depth < MaxRootDepth
    /\ \E ms \in RootSearchOutcomes(rd[w], Len(rd[w].moves)) :
        LET sorted == SortByKeyReverse(ms)
        IN  IF sorted = <<>>
            THEN /\ rd' = [rd EXCEPT ![w].completed_depth = rd[w].root_depth]
                 /\ Panic(w, "index")
                 /\ pc' = [pc EXCEPT ![w] = "panicked"]
            ELSE /\ rd' = [rd EXCEPT ![w].moves = sorted,
                                     ![w].completed_depth = rd[w].root_depth,
                                     ![w].best_move = SomeMove(sorted[1]),
                                     ![w].root_depth = @ + 1]
                 /\ pc' = [pc EXCEPT ![w] = "search_loop"]
                 /\ UNCHANGED <<rdlock, poisoned, fault>>
    /\ UNCHANGED <<midx, searching, exit, lock, cvq, stop, nbest, ctlVars, evotes, eres,
                   outsidePool>>

\* An iteration that finds stop set and is recorded all the same.
IterStoppedRecorded(w) ==
    /\ pc[w] = "search_iter"
    /\ stop
    /\ rd[w].moves # <<>>
    /\ \E upto \in 0 .. Len(rd[w].moves) : \E ms \in RootSearchOutcomes(rd[w], upto) :
        rd' = [rd EXCEPT ![w].moves = SortByKeyReverse(ms),
                         ![w].completed_depth = rd[w].root_depth,
                         ![w].best_move = SomeMove(SortByKeyReverse(ms)[1]),
                         ![w].root_depth = @ + 1]
    /\ pc' = [pc EXCEPT ![w] = "search_loop"]
    /\ UNCHANGED <<midx, searching, exit, lock, cvq, rdlock, poisoned, fault, stop, nbest,
                   ctlVars, evotes, eres, outsidePool>>

\* search(): an iteration that finds stop set: the list is sorted and
\* neither completed_depth nor best_move is touched.
IterStopped(w) ==
    /\ pc[w] = "search_iter"
    /\ stop
    /\ \E upto \in 0 .. Len(rd[w].moves) : \E ms \in RootSearchOutcomes(rd[w], upto) :
        rd' = [rd EXCEPT ![w].moves = SortByKeyReverse(ms), ![w].root_depth = @ + 1]
    /\ pc' = [pc EXCEPT ![w] = "search_loop"]
    /\ UNCHANGED <<midx, searching, exit, lock, cvq, rdlock, poisoned, fault, stop, nbest,
                   ctlVars, evotes, eres, outsidePool>>

\* search(): while !THREADS.stopped() {}; THREADS.stop()
Spin ==
    /\ pc[Main] = "spin"
    /\ stop
    /\ stop' = TRUE
    /\ midx' = 1
    /\ pc' = [pc EXCEPT ![Main] = IF Helpers = {} THEN "search_ret" ELSE "wait_helpers"]
    /\ UNCHANGED <<searching, exit, lock, cvq, rd, rdlock, poisoned, fault, nbest,
                   ctlVars, evotes, eres, outsidePool>>

\* ThreadPool::wait: Worker::wait of the next helper; with searching set the
\* main worker blocks on the helper's cv.
WaitHelper ==
    /\ pc[Main] = "wait_helpers"
    /\ lock[midx] = Free
    /\ IF StillSearching(midx)
       THEN /\ cvq' = [cvq EXCEPT ![midx] = @ \cup {Main}]
            /\ pc' = [pc EXCEPT ![Main] = "wait_blocked"]
            /\ midx' = midx
       ELSE /\ cvq' = cvq
            /\ pc' = [pc EXCEPT ![Main] =
                        IF midx + 1 = NWorkers THEN "search_ret" ELSE "wait_helpers"]
            /\ midx' = midx + 1
    /\ UNCHANGED <<searching, exit, lock, rd, rdlock, poisoned, fault, stop, nbest,
                   ctlVars, evotes, eres, outsidePool>>

\* Worker::wait: notified, the main worker tests searching again.
WaitWake ==
    /\ pc[Main] = "wait_blocked"
    /\ Main \notin cvq[midx]
    /\ pc' = [pc EXCEPT ![Main] = "wait_helpers"]
    /\ UNCHANGED <<midx, searching, exit, lock, cvq, rd, rdlock, poisoned, fault, stop,
                   nbest, ctlVars, evotes, eres, outsidePool>>

\* idle(): search() has returned and the guard of root_data is dropped.
SearchRet ==
    /\ pc[Main] = "search_ret"
    /\ rdlock' = [rdlock EXCEPT ![Main] = Free]
    /\ midx' = 0
    /\ evotes' = <<>>
    /\ pc' = [pc EXCEPT ![Main] = "vote"]
    /\ UNCHANGED <<searching, exit, lock, cvq, rd, poisoned, fault, stop, nbest, ctlVars,
                   eres, outsidePool>>

\* elect_best_move: Worker::vote of the next worker, under its root_data.
Vote ==
    /\ pc[Main] = "vote"
    /\ rdlock[midx] = Free
    /\ IF poisoned[midx]
       THEN /\ Panic(Main, "poison")
            /\ pc' = [pc EXCEPT ![Main] = "panicked"]
            /\ UNCHANGED <<midx, evotes>>
       ELSE /\ evotes' = IF rd[midx].best_move.some
                         THEN Append(evotes, [mv |-> rd[midx].best_move.mv,
                                              score |-> rd[midx].best_move.eval,
                                              depth |-> rd[midx].completed_depth])
                         ELSE evotes
            /\ midx' = midx + 1
            /\ pc' = [pc EXCEPT ![Main] = IF midx + 1 = NWorkers THEN "elect" ELSE "vote"]
            /\ UNCHANGED <<rdlock, poisoned, fault>>
    /\ UNCHANGED <<searching, exit, lock, cvq, rd, stop, nbest, ctlVars, eres, outsidePool>>

\* elect_best_move on the votes collected; idle() sends the move as bestmove.
ElectSend ==
    /\ pc[Main] = "elect"
    /\ \E r \in ElectOutcomes(evotes, echecked) :
        /\ eres' = r
        /\ IF r.status = "panic"
           THEN /\ Panic(Main, "unwrap")
                /\ pc' = [pc EXCEPT ![Main] = "panicked"]
                /\ nbest' = nbest
           ELSE /\ pc' = [pc EXCEPT ![Main] = "idle_lock"]
                /\ nbest' = nbest + 1
                /\ UNCHANGED <<rdlock, poisoned, fault>>
    /\ UNCHANGED <<midx, searching, exit, lock, cvq, rd, stop, ctlVars, evotes, outsidePool>>

\* ---- SpecPool: the controller's calls of the pool ----

\* ThreadPool::start_thinking(board) is called.
StartThinking(board) ==
    /\ cpc = "ready"
    /\ gos < golimit
    /\ gos' = gos + 1
    /\ cboard' = board
    /\ cpc' = "st_wait"
    /\ UNCHANGED <<workerVars, stop, nbest, cidx, golimit, evotes, eres, outsidePool>>

\* start_thinking: self.main().wait(); with searching set the controller
\* blocks on the main worker's cv.
StWait ==
    /\ cpc = "st_wait"
    /\ lock[Main] = Free
    /\ IF StillSearching(Main)
       THEN /\ cvq' = [cvq EXCEPT ![Main] = @ \cup {Ctl}]
            /\ cpc' = "st_blocked"
       ELSE /\ cvq' = cvq
            /\ cpc' = "st_unstop"
    /\ UNCHANGED <<pc, midx, searching, exit, lock, rd, rdlock, poisoned, fault, stop,
                   nbest, cidx, cboard, gos, golimit, evotes, eres, outsidePool>>

\* Worker::wait: notified, the controller tests searching again.
StWake ==
    /\ cpc = "st_blocked"
    /\ Ctl \notin cvq[Main]
    /\ cpc' = "st_wait"
    /\ UNCHANGED <<workerVars, stop, nbest, cidx, cboard, gos, golimit, evotes, eres, outsidePool>>

\* start_thinking: self.stop.store(false)
StUnstop ==
    /\ cpc = "st_unstop"
    /\ stop' = FALSE
    /\ cidx' = 0
    /\ cpc' = "st_populate"
    /\ UNCHANGED <<workerVars, nbest, cboard, gos, golimit, evotes, eres, outsidePool>>

\* start_thinking: Worker::populate of the next worker, under its root_data.
StPopulate ==
    /\ cpc = "st_populate"
    /\ rdlock[cidx] = Free
    /\ IF poisoned[cidx]
       THEN /\ Panic(Ctl, "poison")
            /\ cpc' = "panicked"
            /\ UNCHANGED <<rd, cidx>>
       ELSE /\ rd' = [rd EXCEPT ![cidx] = Populate(@, cboard)]
            /\ cidx' = cidx + 1
            /\ cpc' = IF cidx + 1 = NWorkers THEN "st_start" ELSE "st_populate"
            /\ UNCHANGED <<rdlock, poisoned, fault>>
    /\ UNCHANGED <<pc, midx, searching, exit, lock, cvq, stop, nbest, cboard, gos, golimit, evotes,
                   eres, outsidePool>>

\* start_thinking: self.main().start_search()
StStart ==
    /\ cpc = "st_start"
    /\ lock[Main] = Free
    /\ searching' = [searching EXCEPT ![Main] = TRUE]
    /\ \E q \in NotifyOne(cvq[Main]) : cvq' = [cvq EXCEPT ![Main] = q]
    /\ cpc' = "ready"
    /\ UNCHANGED <<pc, midx, exit, lock, rd, rdlock, poisoned, fault, stop, nbest, cidx,
                   cboard, gos, golimit, evotes, eres, outsidePool>>

\* ThreadPool::stop
Stop ==
    /\ cpc = "ready"
    /\ ~stop
    /\ stop' = TRUE
    /\ UNCHANGED <<workerVars, nbest, ctlVars, evotes, eres, outsidePool>>

\* ThreadPool::quit is called: self.stop()
Quit ==
    /\ cpc = "ready"
    /\ stop' = TRUE
    /\ cidx' = IF Helpers = {} THEN 0 ELSE 1
    /\ cpc' = IF Helpers = {} THEN "q_die" ELSE "q_wait"
    /\ UNCHANGED <<workerVars, nbest, cboard, gos, golimit, evotes, eres, outsidePool>>

\* quit: self.wait(), Worker::wait of the next helper.
QuitWait ==
    /\ cpc = "q_wait"
    /\ lock[cidx] = Free
    /\ IF StillSearching(cidx)
       THEN /\ cvq' = [cvq EXCEPT ![cidx] = @ \cup {Ctl}]
            /\ cpc' = "q_blocked"
            /\ cidx' = cidx
       ELSE /\ cvq' = cvq
            /\ cpc' = IF cidx + 1 = NWorkers THEN "q_die" ELSE "q_wait"
            /\ cidx' = IF cidx + 1 = NWorkers THEN 0 ELSE cidx + 1
    /\ UNCHANGED <<pc, midx, searching, exit, lock, rd, rdlock, poisoned, fault, stop,
                   nbest, cboard, gos, golimit, evotes, eres, outsidePool>>

\* Worker::wait: notified, the controller tests searching again.
QuitWake ==
    /\ cpc = "q_blocked"
    /\ Ctl \notin cvq[cidx]
    /\ cpc' = "q_wait"
    /\ UNCHANGED <<workerVars, stop, nbest, cidx, cboard, gos, golimit, evotes, eres, outsidePool>>

\* Worker::die: exit.store(true); cv.notify_one(), without lock.
Die ==
    /\ cpc = "q_die"
    /\ exit' = [exit EXCEPT ![cidx] = TRUE]
    /\ \E q \in NotifyOne(cvq[cidx]) : cvq' = [cvq EXCEPT ![cidx] = q]
    /\ cpc' = "q_join"
    /\ UNCHANGED <<pc, midx, searching, lock, rd, rdlock, poisoned, fault, stop, nbest,
                   cidx, cboard, gos, golimit, evotes, eres, outsidePool>>

\* Worker::die: handle.join() returns when the worker's thread has ended.
Join ==
    /\ cpc = "q_join"
    /\ pc[cidx] \in {"exited", "panicked"}
    /\ cidx' = cidx + 1
    /\ cpc' = IF cidx + 1 = NWorkers THEN "done" ELSE "q_die"
    /\ UNCHANGED <<workerVars, stop, nbest, cboard, gos, golimit, evotes, eres, outsidePool>>

\* ThreadPool::init has spawned the workers, each entering idle().
PoolSpawned(limit) ==
    /\ TTIdle /\ FillIdle /\ Mv16Idle /\ ConcIdle /\ ElectIdle /\ EngineIdle /\ AbIdle
    /\ pc = [w \in Workers |-> "idle_lock"]
    /\ midx = 0
    /\ searching = [w \in Workers |-> TRUE]
    /\ exit = [w \in Workers |-> FALSE]
    /\ lock = [w \in Workers |-> Free]
    /\ cvq = [w \in Workers |-> {}]
    /\ rd = [w \in Workers |-> DefaultRootData]
    /\ rdlock = [w \in Workers |-> Free]
    /\ poisoned = [w \in Workers |-> FALSE]
    /\ fault = [t \in Workers \cup {Ctl} |-> "none"]
    /\ stop = FALSE
    /\ nbest = 0
    /\ cpc = "ready"
    /\ cidx = 0
    /\ cboard = "Start"
    /\ gos = 0
    /\ golimit = limit

InitPool == PoolSpawned(MaxGo)

NextPool ==
    \/ \E w \in Workers : IdleEnter(w)
    \/ \E w \in Workers : IdlePred(w)
    \/ \E w \in Workers : IdleBlock(w)
    \/ \E w \in Workers : IdleWake(w)
    \/ \E w \in Workers : SearchLock(w)
    \/ StartHelper
    \/ \E w \in Workers : SearchLoop(w)
    \/ \E w \in Workers : IterDone(w)
    \/ \E w \in Workers : IterStopped(w)
    \/ Spin
    \/ WaitHelper
    \/ WaitWake
    \/ SearchRet
    \/ Vote
    \/ ElectSend
    \/ \E board \in Boards : StartThinking(board)
    \/ StWait
    \/ StWake
    \/ StUnstop
    \/ StPopulate
    \/ StStart
    \/ Stop
    \/ Quit
    \/ QuitWait
    \/ QuitWake
    \/ Die
    \/ Join

SpecPool == InitPool /\ [][NextPool]_vars

(* C9: whenever the main worker calls elect_best_move, the votes it has
   collected are not empty: some worker has a best_move; this also when stop
   comes before any worker has completed an iteration of the first search. *)
C9_ElectionHasVotes ==
    pc[Main] = "elect" => evotes # <<>>

(* C10: start_thinking on a position with no legal moves never fails: no
   worker searching a board that is checkmate or stalemate panics on an index
   into its root move list, so the main worker can complete the search. *)
C10_MatedSearchNeverFails ==
    \A w \in Workers :
        LegalMoves(rd[w].board) = <<>> => ~(pc[w] = "panicked" /\ fault[w] = "index")

\* ---- SpecPoolFair: the pool under fair scheduling of its threads ----

\* A step of worker w's thread, in idle(), in search() or, for the main
\* worker, in the calls it makes on the pool.
WorkerStep(w) ==
    \/ IdleEnter(w)
    \/ IdlePred(w)
    \/ IdleBlock(w)
    \/ IdleWake(w)
    \/ SearchLock(w)
    \/ SearchLoop(w)
    \/ IterDone(w)
    \/ IterStopped(w)
    \/ (w = Main /\ (StartHelper \/ Spin \/ WaitHelper \/ WaitWake \/ SearchRet \/ Vote
                        \/ ElectSend))

\* A step of the controller inside a call of start_thinking or quit.
CtlStep ==
    \/ StWait
    \/ StWake
    \/ StUnstop
    \/ StPopulate
    \/ StStart
    \/ QuitWait
    \/ QuitWake
    \/ Die
    \/ Join

\* The largest number of calls of start_thinking looked at under fairness.
MaxFairGo == 1

InitPoolFair == PoolSpawned(MaxFairGo)

\* Every thread that can take a step takes one; nothing makes the controller
\* call the pool.
SpecPoolFair ==
    /\ InitPoolFair
    /\ [][NextPool]_vars
    /\ \A w \in Workers : WF_vars(WorkerStep(w))
    /\ WF_vars(CtlStep)

\* Worker w is blocked in the wait of idle() with searching set: start_search
\* has been called on it.
StartedInWait(w) == pc[w] = "idle_blocked" /\ searching[w]

\* Worker w is in search().
InSearch(w) ==
    pc[w] \in {"start_helpers", "search_loop", "search_iter", "spin", "wait_helpers",
               "wait_blocked", "search_ret"}

(* C11: under fair scheduling, a worker blocked in idle() on which
   start_search has been called eventually leaves the wait and runs
   search(). *)
C11_StartSearchRunsSearch ==
    \A w \in Workers : StartedInWait(w) ~> InSearch(w)

\* As C11, for a pool that may be quit: the worker runs search() unless
\* Worker::die has set exit, and then it returns from idle().
C11_StartSearchLeavesWait ==
    \A w \in Workers : StartedInWait(w) ~> (InSearch(w) \/ (exit[w] /\ pc[w] = "exited"))

\* start_search has been called on a helper blocked in idle() and has
\* notified it, and the main worker is blocked in Worker::wait on the same
\* condvar before the helper has run.
C11_Witness ==
    \E w \in Helpers : /\ StartedInWait(w)
                       /\ w \notin cvq[w]
                       /\ Main \in cvq[w]

\* Thread t is blocked in Worker::wait on worker w.
InWait(t, w) ==
    \/ t = Main /\ pc[Main] = "wait_blocked" /\ midx = w
    \/ t = Ctl /\ cpc = "q_blocked" /\ cidx = w
    \/ t = Ctl /\ cpc = "st_blocked" /\ w = Main

(* C12: a thread blocked in Worker::wait on a worker eventually returns from
   the wait once the worker has returned from search() and cleared
   searching (the worker has a best_move, so it has searched), also when the
   main worker and the controller wait on the same worker. *)
C12_WaitReturns ==
    \A w \in Workers : \A t \in {Main, Ctl} :
        (InWait(t, w) /\ ~searching[w] /\ rd[w].best_move.some) ~> ~InWait(t, w)

\* Worker::die has set exit on worker w and notified, and waits in join.
Dying(w) == cpc = "q_join" /\ cidx = w

\* Worker w is in the wait of idle(): at its condition, about to block, or
\* blocked.
InIdleWait(w) == pc[w] \in {"idle_pred", "idle_block", "idle_blocked"}

(* C13: after Worker::die has set exit and notified a worker that is in the
   wait of idle(), the worker's thread eventually returns from idle(), so
   that the join completes. *)
C13_DieEndsWorker ==
    \A w \in Workers : (Dying(w) /\ InIdleWait(w)) ~> pc[w] = "exited"

\* The controller is inside ThreadPool::quit.
InQuit == cpc \in {"q_wait", "q_blocked", "q_die", "q_join"}

(* C14: ThreadPool::quit, called in any reachable state of the pool,
   eventually returns, every worker's thread having left idle() and been
   joined. *)
C14_QuitReturns ==
    InQuit ~> (cpc = "done" /\ \A w \in Workers : pc[w] \in {"exited", "panicked"})

\* ---- SpecEngine: the controller's event loop and its search threads ----

\* The largest number of messages the front end sends.
MaxUci == 4

\* The largest number of iterations a search thread completes.
MaxIter == 1

Msg(type, arg) == [type |-> type, arg |-> arg]

\* The messages of the front end.
UciInputs ==
    {Msg("position", b) : b \in Boards}
        \cup {Msg("go", tc) : tc \in {"infinite", "movetime"}}
        \cup {Msg("stop", "none"), Msg("quit", "none"), Msg("ucinewgame", "none")}

\* The go messages in the channel or being handled.
GoPending == Cardinality({k \in 1 .. Len(ech) : ech[k].type = "go"})
                + (IF epc = "go_join" THEN 1 ELSE 0)

outsideEngine == <<ttVars, fillVars, mvVars, concVars, elVars, poolVars, abVars>>

\* The front end sends a message on the channel of Engine::start.
FrontEndSend(msg) ==
    /\ epc # "unstarted"
    /\ nuci < MaxUci
    /\ msg.type = "go" => egos + GoPending < MaxEGo
    /\ nuci' = nuci + 1
    /\ ech' = Append(ech, msg)
    /\ UNCHANGED <<eboard, ecache, ebest, esearcher, etimed, epc, sthr, egos, eprinted,
                   outsideEngine>>

\* run(): recv_timeout returns no message.
RecvTimeout ==
    /\ epc = "recv"
    /\ ech = <<>>
    /\ epc' = "poll"
    /\ UNCHANGED <<ech, eboard, ecache, ebest, esearcher, etimed, sthr, egos, eprinted,
                   nuci, outsideEngine>>

\* The controller is handed the message at the head of the channel.
Receives(type) ==
    /\ epc = "recv"
    /\ ech # <<>>
    /\ Head(ech).type = type
    /\ ech' = Tail(ech)

\* handle_message: Position
HandlePosition ==
    /\ Receives("position")
    /\ eboard' = Head(ech).arg
    /\ ecache' = TRUE
    /\ epc' = "poll"
    /\ UNCHANGED <<ebest, esearcher, etimed, sthr, egos, eprinted, nuci, outsideEngine>>

\* handle_message: UciNewGame
HandleNewGame ==
    /\ Receives("ucinewgame")
    /\ eboard' = "none"
    /\ ecache' = FALSE
    /\ epc' = "poll"
    /\ UNCHANGED <<ebest, esearcher, etimed, sthr, egos, eprinted, nuci, outsideEngine>>

\* handle_message: Stop: the handle's stop flag is set, and a cached best
\* move is printed and kept.
HandleStop ==
    /\ Receives("stop")
    /\ sthr' = IF esearcher # 0 THEN [sthr EXCEPT ![esearcher].stop = TRUE] ELSE sthr
    /\ eprinted' = IF ebest # "none" THEN eprinted + 1 ELSE eprinted
    /\ epc' = "poll"
    /\ UNCHANGED <<eboard, ecache, ebest, esearcher, etimed, egos, nuci, outsideEngine>>

\* handle_message: Quit, whose arm is empty.
HandleQuit ==
    /\ Receives("quit")
    /\ epc' = "poll"
    /\ UNCHANGED <<eboard, ecache, ebest, esearcher, etimed, sthr, egos, eprinted, nuci,
                   outsideEngine>>

\* handle_message: BestMove: the move is cached; board and cache are unwrapped.
HandleBestMove ==
    /\ Receives("bestmove")
    /\ ebest' = Head(ech).arg
    /\ epc' = IF eboard = "none" \/ ~ecache THEN "panicked" ELSE "poll"
    /\ UNCHANGED <<eboard, ecache, esearcher, etimed, sthr, egos, eprinted, nuci,
                   outsideEngine>>

\* SearchHandle::search: the thread is spawned if the engine has a board;
\* the new handle becomes Engine.searcher.
StartSearcher ==
    /\ egos' = egos + 1
    /\ esearcher' = egos + 1
    /\ eprinted' = 0
    /\ epc' = "poll"

Spawned(threads, i, board) ==
    [threads EXCEPT ![i] = [pc |-> IF board = "none" THEN "nothread" ELSE "iter",
                            stop |-> FALSE, board |-> board, iters |-> 0,
                            hasbest |-> FALSE]]

\* handle_message: Go: a SearchHandle is made; a handle the engine still has
\* is joined first, which sets its stop flag.
HandleGo ==
    /\ Receives("go")
    /\ etimed' = (Head(ech).arg = "movetime" /\ eboard # "none")
    /\ IF esearcher # 0
       THEN /\ sthr' = [sthr EXCEPT ![esearcher].stop = TRUE]
            /\ epc' = "go_join"
            /\ UNCHANGED <<esearcher, egos, eprinted>>
       ELSE /\ sthr' = Spawned(sthr, egos + 1, eboard)
            /\ StartSearcher
    /\ UNCHANGED <<eboard, ecache, ebest, nuci, outsideEngine>>

\* SearchHandle::join: the old search's thread has ended.
GoJoined ==
    /\ epc = "go_join"
    /\ sthr[esearcher].pc \in {"nothread", "done", "panicked"}
    /\ sthr' = Spawned(sthr, egos + 1, eboard)
    /\ StartSearcher
    /\ UNCHANGED <<ech, eboard, ecache, ebest, etimed, nuci, outsideEngine>>

\* run(): with a searcher and a cached best move, search_done is asked: the
\* stop flag is set, or the search is overdue and its stop flag is then set.
\* A search that is done is dropped, and the cached move printed and cleared.
Poll ==
    /\ epc = "poll"
    /\ epc' = "recv"
    /\ IF esearcher # 0 /\ ebest # "none"
       THEN \E overdue \in (IF etimed THEN BOOLEAN ELSE {FALSE}) :
               IF sthr[esearcher].stop \/ overdue
               THEN /\ sthr' = [sthr EXCEPT ![esearcher].stop = TRUE]
                    /\ esearcher' = 0
                    /\ ebest' = "none"
                    /\ eprinted' = eprinted + 1
               ELSE UNCHANGED <<sthr, esearcher, ebest, eprinted>>
       ELSE UNCHANGED <<sthr, esearcher, ebest, eprinted>>
    /\ UNCHANGED <<ech, eboard, ecache, etimed, egos, nuci, outsideEngine>>

\* search(): an iteration over the moves runs to its end with stop not set;
\* with a legal move there is a best move then.
SearchIterDone(i) ==
    /\ sthr[i].pc = "iter"
    /\ ~sthr[i].stop
    /\ sthr[i].iters < MaxIter
    /\ sthr' = [sthr EXCEPT ![i].pc = "check",
                            ![i].iters = @ + 1,
                            ![i].hasbest = @ \/ LegalMoves(sthr[i].board) # <<>>]
    /\ UNCHANGED <<ech, eboard, ecache, ebest, esearcher, etimed, epc, egos, eprinted,
                   nuci, outsideEngine>>

\* search(): the loop over the moves breaks on the stop flag.
SearchIterBreak(i) ==
    /\ sthr[i].pc = "iter"
    /\ sthr[i].stop
    /\ sthr' = [sthr EXCEPT ![i].pc = "check"]
    /\ UNCHANGED <<ech, eboard, ecache, ebest, esearcher, etimed, epc, egos, eprinted,
                   nuci, outsideEngine>>

\* search(): if stop.load() { break }
SearchCheck(i) ==
    /\ sthr[i].pc = "check"
    /\ sthr' = [sthr EXCEPT ![i].pc = IF sthr[i].stop THEN "finish" ELSE "send"]
    /\ UNCHANGED <<ech, eboard, ecache, ebest, esearcher, etimed, epc, egos, eprinted,
                   nuci, outsideEngine>>

\* search(): tx.send(UciMessage::best_move(best_move.unwrap().mv))
SearchSend(i) ==
    /\ sthr[i].pc = "send"
    /\ IF sthr[i].hasbest
       THEN /\ ech' = Append(ech, Msg("bestmove", LegalMoves(sthr[i].board)[1]))
            /\ sthr' = [sthr EXCEPT ![i].pc = "iter"]
       ELSE /\ ech' = ech
            /\ sthr' = [sthr EXCEPT ![i].pc = "panicked"]
    /\ UNCHANGED <<eboard, ecache, ebest, esearcher, etimed, epc, egos, eprinted, nuci,
                   outsideEngine>>

\* search(): stop.store(true) after the loop
SearchFinish(i) ==
    /\ sthr[i].pc = "finish"
    /\ sthr' = [sthr EXCEPT ![i].pc = "done", ![i].stop = TRUE]
    /\ UNCHANGED <<ech, eboard, ecache, ebest, esearcher, etimed, epc, egos, eprinted,
                   nuci, outsideEngine>>

\* Engine::start has spawned the controller's thread, which enters run().
InitEngine ==
    /\ TTIdle /\ FillIdle /\ Mv16Idle /\ ConcIdle /\ ElectIdle /\ PoolIdle /\ AbIdle
    /\ ech = <<>>
    /\ eboard = "none"
    /\ ecache = FALSE
    /\ ebest = "none"
    /\ esearcher = 0
    /\ etimed = FALSE
    /\ epc = "recv"
    /\ sthr = [i \in Searches |-> NoThread]
    /\ egos = 0
    /\ eprinted = 0
    /\ nuci = 0

\* A step of the controller's thread.
EngineStep ==
    \/ RecvTimeout
    \/ HandlePosition
    \/ HandleNewGame
    \/ HandleStop
    \/ HandleQuit
    \/ HandleGo
    \/ HandleBestMove
    \/ GoJoined
    \/ Poll

\* A step of search thread i.
SearchStep(i) ==
    \/ SearchIterDone(i)
    \/ SearchIterBreak(i)
    \/ SearchCheck(i)
    \/ SearchSend(i)
    \/ SearchFinish(i)

NextEngine ==
    \/ \E msg \in UciInputs : FrontEndSend(msg)
    \/ EngineStep
    \/ \E i \in Searches : SearchStep(i)

SpecEngine == InitEngine /\ [][NextEngine]_vars

\* Every thread that can take a step takes one; nothing makes the front end
\* send a message.
SpecEngineFair ==
    /\ InitEngine
    /\ [][NextEngine]_vars
    /\ WF_vars(EngineStep)
    /\ \A i \in Searches : WF_vars(SearchStep(i))

(* C15: after the controller has received a quit message its event loop
   terminates: the step of run() that handles the message is its last, the
   controller's thread returns and handles no further message. *)
C15_QuitEndsLoop ==
    [][HandleQuit => epc' = "returned"]_vars

(* C16: for a go followed by a stop the controller prints one bestmove: the
   cached best move is not printed by the stop handler and again by the
   poll of search_done, so no go has more than one bestmove line. *)
C16_OneBestMovePerGo ==
    eprinted <= 1

\* A stop has been handled for a search whose thread is still running, with
\* no best move cached and none on its way, and nothing has been printed.
StoppedBeforeBest ==
    /\ esearcher # 0
    /\ sthr[esearcher].stop
    /\ sthr[esearcher].pc \in {"iter", "check"}
    /\ sthr[esearcher].iters = 0
    /\ LegalMoves(sthr[esearcher].board) # <<>>
    /\ ebest = "none"
    /\ eprinted = 0
    /\ \A k \in 1 .. Len(ech) : ech[k].type # "bestmove"

(* C17: if stop arrives after go and before any best move is cached, no
   bestmove is printed at that moment, and a bestmove for that go is still
   printed eventually. *)
C17_StopBeforeBestStillPrints ==
    StoppedBeforeBest ~> eprinted >= 1

\* ---- SpecRoot: the iterations of search() over one root move list ----

\* start_thinking(board) on a new pool, every worker it starts having entered
\* the loop of search(): the main worker wakes the helpers only if its move
\* list is not empty, and a helper not woken stays blocked in idle().
InSearchLoop(board) ==
    LET started == {w \in Workers : w = Main \/ LegalMoves(board) # <<>>}
    IN  /\ pc = [w \in Workers |-> IF w \in started THEN "search_loop" ELSE "idle_blocked"]
        /\ midx = IF LegalMoves(board) # <<>> THEN NWorkers ELSE 1
        /\ searching = [w \in Workers |-> w \in started]
        /\ exit = [w \in Workers |-> FALSE]
        /\ lock = [w \in Workers |-> Free]
        /\ cvq = [w \in Workers |-> IF w \in started THEN {} ELSE {w}]
        /\ rd = [w \in Workers |-> Populate(DefaultRootData, board)]
        /\ rdlock = [w \in Workers |-> IF w \in started THEN w ELSE Free]
        /\ poisoned = [w \in Workers |-> FALSE]
        /\ fault = [t \in Workers \cup {Ctl} |-> "none"]
        /\ stop = FALSE
        /\ nbest = 0
        /\ cpc = "ready"
        /\ cidx = NWorkers
        /\ cboard = board
        /\ gos = 1
        /\ golimit = 1

InitRoot ==
    /\ TTIdle /\ FillIdle /\ Mv16Idle /\ ConcIdle /\ ElectIdle /\ EngineIdle /\ AbIdle
    /\ \E board \in RootBoards : InSearchLoop(board)

NextRoot ==
    \/ \E w \in Workers : SearchLoop(w)
    \/ \E w \in Workers : IterDone(w)
    \/ \E w \in Workers : IterStopped(w)
    \/ Stop

SpecRoot == InitRoot /\ [][NextRoot]_vars

\* moves is sorted by score, greatest first.
SortedDescending(moves) ==
    \A k \in 1 .. Len(moves) - 1 : moves[k].eval >= moves[k + 1].eval

\* Worker w ends an iteration of search() with the stop flag not set.
IterationCompletes(w) ==
    pc[w] = "search_iter" /\ ~stop /\ pc'[w] = "search_loop"

(* C18: after an iteration of iterative deepening that completes with the
   stop flag not set, the worker's best_move is Some and is the head of its
   root move list, which is sorted by score, greatest first, so that
   best_move carries the greatest score recorded in the list. *)
C18_BestMoveIsSortedHead ==
    [][\A w \in Workers :
          IterationCompletes(w) =>
              /\ rd'[w].best_move.some
              /\ rd'[w].moves # <<>>
              /\ rd'[w].best_move = SomeMove(rd'[w].moves[1])
              /\ SortedDescending(rd'[w].moves)
              /\ \A k \in 1 .. Len(rd'[w].moves) :
                     rd'[w].moves[k].eval <= rd'[w].best_move.eval]_vars

\* A worker has completed its second iteration with stop not set, and the
\* sort has brought a move other than the first legal one to the head.
C18_Witness ==
    \E w \in Workers :
        /\ pc[w] = "search_loop"
        /\ ~stop
        /\ rd[w].completed_depth = 1
        /\ rd[w].root_depth = 2
        /\ rd[w].best_move.some
        /\ rd[w].best_move.mv # LegalMoves(rd[w].board)[1]
        /\ rd[w].best_move.eval = 40

\* ---- SpecAlphaBeta: alphabeta, quiesce and root_search on a position that
\* ---- is over (checkmate or stalemate: no legal move)

\* The greatest depth of a call.
MaxAbDepth == 2

\* BoardStatus of a position without legal moves.
OverStatuses == {"Checkmate", "Stalemate"}

\* eval::evaluate_board: a score relative to the side to move, strictly
\* between -SCORE_MATE and SCORE_MATE.
AbEvals == {-300, 0, 300}

\* The bounds of a window; search() starts from -100_000 and 100_000.
AbBounds == {-100000, -50, 50, 100000}

\* The entries the cache can hold for the position.
AbEntries ==
    {NoEntry} \cup {[some |-> TRUE, eval |-> e, old_depth |-> d] :
                       e \in {0, 120}, d \in 0 .. MaxAbDepth}

\* quiesce on a position without legal moves: the loop over the captures
\* does not run.
quiesce(cur_eval, alpha, beta) ==
    IF cur_eval >= beta THEN beta
    ELSE IF alpha < cur_eval THEN cur_eval
    ELSE alpha

\* alphabeta on a position without legal moves: the loop over the legal
\* moves does not run, max stays -99_999 and an entry found in the cache is
\* inserted again with the depth of the call. The value returned and the
\* entry the cache has afterwards.
alphabeta(status, entry, cur_eval, alpha, beta, depth, root_distance) ==
    IF depth = 0
    THEN [value |-> quiesce(cur_eval, alpha, beta), entry |-> entry]
    ELSE IF status = "Checkmate"
    THEN [value |-> -SCORE_MATE_I32, entry |-> entry]
    ELSE IF entry.some /\ entry.old_depth >= depth
    THEN [value |-> entry.eval, entry |-> entry]
    ELSE LET max == -99999
         IN  [value |-> IF max > 1000000 THEN max - 1
                        ELSE IF max < -1000000 THEN max + 1
                        ELSE max,
              entry |-> IF entry.some THEN [entry EXCEPT !.old_depth = depth] ELSE entry]

\* RootData::root_search on a position that is over: the match on
\* self.board.status() returns before the table is probed.
root_search(status) ==
    IF status = "Checkmate" THEN -SCORE_MATE ELSE 0

\* A call of alphabeta on the position.
CallAlphaBeta(status, cur_eval, alpha, beta, depth, root_distance) ==
    LET r == alphabeta(status, abcache, cur_eval, alpha, beta, depth, root_distance)
    IN  /\ abcall' = [fn |-> "alphabeta", status |-> status, cur_eval |-> cur_eval,
                      alpha |-> alpha, beta |-> beta, depth |-> depth,
                      root_distance |-> root_distance]
        /\ abret' = r.value
        /\ abcache' = r.entry
        /\ UNCHANGED <<asp, ttVars, fillVars, mvVars, concVars, elVars, poolVars, engVars>>

\* A call of root_search on the position.
CallRootSearch(status, alpha, beta, depth) ==
    /\ abcall' = [fn |-> "root_search", status |-> status, cur_eval |-> 0,
                  alpha |-> alpha, beta |-> beta, depth |-> depth, root_distance |-> 0]
    /\ abret' = root_search(status)
    /\ UNCHANGED <<abcache, asp, ttVars, fillVars, mvVars, concVars, elVars, poolVars,
                   engVars>>

InitAlphaBeta ==
    /\ TTIdle /\ FillIdle /\ Mv16Idle /\ ConcIdle /\ ElectIdle /\ PoolIdle /\ EngineIdle
    /\ abcall = NoAbCall
    /\ abcache \in AbEntries
    /\ abret = 0
    /\ asp = NoAsp

NextAlphaBeta ==
    \/ \E status \in OverStatuses, cur_eval \in AbEvals, alpha \in AbBounds,
          beta \in AbBounds, depth \in 0 .. MaxAbDepth, root_distance \in 1 .. 2 :
            alpha < beta
            /\ CallAlphaBeta(status, cur_eval, alpha, beta, depth, root_distance)
    \/ \E status \in OverStatuses, alpha \in AbBounds, beta \in AbBounds,
          depth \in 1 .. MaxAbDepth :
            alpha < beta /\ CallRootSearch(status, alpha, beta, depth)

SpecAlphaBeta == InitAlphaBeta /\ [][NextAlphaBeta]_vars

(* C19: on a position whose status is Checkmate, alphabeta returns exactly
   -SCORE_MATE, for every window, every depth (0 included), every root
   distance and every content of the cache. *)
C19_CheckmateIsMateScore ==
    (abcall.fn = "alphabeta" /\ abcall.status = "Checkmate")
        => abret = -SCORE_MATE_I32

(* C20: on a position whose status is Stalemate, alphabeta called with
   depth >= 1 and root_search both return 0, for every window and every
   content of the cache. *)
C20_StalemateIsZero ==
    /\ (abcall.fn = "alphabeta" /\ abcall.status = "Stalemate" /\ abcall.depth >= 1)
           => abret = 0
    /\ (abcall.fn = "root_search" /\ abcall.status = "Stalemate") => abret = 0

\* Worker w is inside search(): it holds its root_data, or is about to take it.
InsideSearch(w) ==
    pc[w] \in {"search_lock", "start_helpers", "search_loop", "search_iter"}

\* The main worker is executing elect_best_move.
Electing == pc[Main] \in {"vote", "elect"}

(* C21: in every state in which the main worker executes elect_best_move,
   no other worker is inside search(): every helper has returned from
   search() and has set searching to false. *)
C21_ElectionFindsHelpersIdle ==
    Electing => \A h \in Helpers : ~InsideSearch(h) /\ ~searching[h]

\* The main worker is about to read the root data of a helper that has
\* searched in this search and has gone back to idle().
C21_Witness ==
    /\ pc[Main] = "vote"
    /\ midx \in Helpers
    /\ rd[midx].best_move.some
    /\ rd[midx].root_depth >= 1
    /\ pc[midx] = "idle_blocked"

\* The main worker has left the loop `while !THREADS.stopped() {}` of search().
PastSpin == pc[Main] \in {"wait_helpers", "wait_blocked", "search_ret", "vote", "elect"}

\* The main worker has returned from THREADS.wait() in search().
PastWait == pc[Main] \in {"search_ret", "vote", "elect"}

\* The calls of start_thinking that have gone past self.main().wait().
Started == IF cpc \in {"st_wait", "st_blocked"} THEN gos - 1 ELSE gos

(* C22: for each call of start_thinking the main worker sends at most one
   bestmove, and sends it only after it has seen the stop flag set, then
   waited for every helper, then run the election: the bestmove sent is the
   one of the latest search started, it is sent from the end of
   elect_best_move, the stop flag is set from the end of the spin on, and
   no helper is searching from the end of the wait on. *)
C22_OneBestMoveAfterElection ==
    /\ [](nbest <= Started)
    /\ [](PastSpin => stop)
    /\ [](PastWait => \A h \in Helpers : ~searching[h])
    /\ [][nbest' # nbest =>
             /\ nbest' = nbest + 1
             /\ nbest' = Started
             /\ pc[Main] = "elect"
             /\ Len(evotes) >= 1
             /\ eres'.status # "panic"]_vars

\* The second search's bestmove has been sent.
C22_Witness ==
    /\ nbest = 2
    /\ gos = 2
    /\ pc[Main] = "idle_lock"
    /\ stop

\* ThreadPool::quit has been called.
Quitting == InQuit \/ cpc = "done"

\* The controller is in self.main().wait() of start_thinking.
InStartWait == cpc \in {"st_wait", "st_blocked"}

(* C23: under fair scheduling, once ThreadPool::stop() has been called
   during a search, every worker that is searching goes back to idle
   (searching = false), and the wait on the main worker of a start_thinking
   that follows returns. A pool told to quit is left aside. *)
C23_StopEndsSearch ==
    /\ \A w \in Workers :
           (stop /\ InsideSearch(w) /\ ~Quitting) ~> (~searching[w] \/ Quitting)
    /\ (InStartWait /\ gos >= 1) ~> (cpc = "st_unstop" \/ Quitting)

(* C24: the move elect_best_move returns at the end of a search started by
   start_thinking(B) is a legal move of B, found by an iteration of that
   search: what an earlier search on another position has left in a
   worker's RootData is not elected. *)
C24_ElectedMoveIsLegal ==
    [][nbest' # nbest => IsLegal(rd[Main].board, eres'.mv)]_vars

\* Worker w ends an iteration of search() in which the stop flag was seen.
IterationCancelled(w) ==
    pc[w] = "search_iter" /\ stop /\ pc'[w] = "search_loop"

(* C25: an iteration in which the stop flag is seen is discarded: the
   worker's completed_depth and best_move keep the values of the last
   completed iteration, and the 0 that root_search returns when cancelled
   is not stored as the score of a move and is not the score of a vote.
   The flag, once seen, stays set until every worker has left search(). *)
C25_CancelledIterationDiscarded ==
    /\ [][\A w \in Workers :
             IterationCancelled(w) =>
                 /\ rd'[w].completed_depth = rd[w].completed_depth
                 /\ rd'[w].best_move = rd[w].best_move
                 /\ \A k \in 1 .. Len(rd'[w].moves) : rd'[w].moves[k].eval # 0]_vars
    /\ [][(stop /\ ~stop') => \A w \in Workers : ~InsideSearch(w)]_vars
    /\ [](\A k \in 1 .. Len(evotes) : evotes[k].score # 0)

\* In the first search a worker has completed its first iteration and has
\* then had its second cancelled.
C25_Witness ==
    \E w \in Workers :
        /\ gos = 1
        /\ stop
        /\ pc[w] = "search_loop"
        /\ rd[w].root_depth = 2
        /\ rd[w].completed_depth = 0
        /\ rd[w].best_move.some

\* ---- SpecAspire: the aspiration windows of search() from depth 4 on, one
\* ---- worker, the stop flag not set

\* The greatest depth whose iteration is run.
MaxAspDepth == 5

\* The greatest number of calls of root_search in one iteration.
MaxPasses == 3

\* The scores of best_move when the iteration of depth 4 begins.
AspPrevs == {-16384, -2000, -100, 0, 16384}

\* The values of the root moves: what -search::alphabeta or the table gives,
\* strictly between -SCORE_INF and SCORE_INF.
AspValues == {-31999, -31998, -31981, -120, 50}

\* The root moves.
AspMoves == <<"a", "b">>

\* a / b of Rust on signed integers, b > 0: the quotient rounded towards 0.
Quot(a, b) == IF a >= 0 THEN a \div b ELSE -((-a) \div b)

\* saturating_add and saturating_sub on i16.
Sat16(x) == IF x > 32767 THEN 32767 ELSE IF x < -32768 THEN -32768 ELSE x

Max2(a, b) == IF a >= b THEN a ELSE b

Min2(a, b) == IF a <= b THEN a ELSE b

\* RootData::root_search(alpha, beta, depth) on a position that is not over,
\* every move legal: the loop over self.moves from entry k, the value of
\* entry k being values[k]. The value returned and the move list left.
RECURSIVE RootPass(_, _, _, _, _, _, _)
RootPass(moves, values, k, alpha, beta, mx, depth) ==
    IF k > Len(moves)
    THEN [ret |-> IF mx >= SCORE_MATE - depth THEN mx - 1
                  ELSE IF mx < -SCORE_MATE + depth THEN mx + 1
                  ELSE mx,
          moves |-> moves]
    ELSE LET value == values[k]
             improves == value > mx
             scored == [moves EXCEPT ![k].eval =
                           IF value > alpha /\ (value >= beta \/ improves)
                           THEN value ELSE -SCORE_INF]
             alpha1 == IF improves /\ value > alpha THEN value ELSE alpha
             pruned == MatePruned(alpha1, beta)
         IN  IF value >= beta
             THEN [ret |-> value, moves |-> scored]
             ELSE IF pruned.return
             THEN [ret |-> IF SCORE_MATE < beta /\ alpha1 >= SCORE_MATE
                           THEN SCORE_MATE ELSE -SCORE_MATE,
                   moves |-> scored]
             ELSE RootPass(scored, values, k + 1, pruned.alpha, pruned.beta,
                           IF improves THEN value ELSE mx, depth)

\* search(): `if depth >= 4`: the window of the iteration is set from the
\* score of best_move. An overflow of i16 panics in a build with overflow
\* checks and wraps in one without.
AspireWindow ==
    /\ asp.pc = "head"
    /\ asp.depth <= MaxAspDepth
    /\ LET prev == asp.best
           product == prev * Quot(prev, 16384)
           delta == I16(17 + I16(product))
           sum == prev + delta
           overflow == ~InI16(product) \/ ~InI16(17 + I16(product)) \/ ~InI16(sum)
       IN  asp' = [asp EXCEPT
                     !.pc = IF overflow /\ asp.checked THEN "panicked" ELSE "loop",
                     !.prev = prev,
                     !.delta = delta,
                     !.alpha = Max2(Sat16(prev - delta), -SCORE_INF),
                     !.beta = Min2(I16(sum), SCORE_INF),
                     !.overflow = @ \/ overflow,
                     !.passes = 0]
    /\ UNCHANGED <<abcall, abcache, abret, ttVars, fillVars, mvVars, concVars, elVars,
                   poolVars, engVars>>

\* search(): a pass of the inner loop: root_search at the adjusted depth,
\* the sort, and then the window widened after a fail low or a fail high,
\* or the iteration completed: completed_depth and best_move are set and
\* root_depth goes up.
PassOutcome(values) ==
    LET adj_depth == Max2(1, Max2(0, asp.depth - asp.failed_high_count))
           r == RootPass(asp.moves, values, 1, asp.alpha, asp.beta, -SCORE_INF, adj_depth)
           sorted == SortByKeyReverse(r.moves)
           low == asp.alpha + Quot(asp.beta, 2)
       IN
             IF r.ret <= asp.alpha
             THEN [asp EXCEPT
                     !.pc = IF ~InI16(low) /\ asp.checked THEN "panicked" ELSE "loop",
                     !.moves = sorted,
                     !.adj_depth = adj_depth,
                     !.best_value = r.ret,
                     !.beta = I16(low),
                     !.alpha = Max2(Sat16(r.ret - asp.delta), -SCORE_INF),
                     !.failed_high_count = 0,
                     !.delta = Sat16(asp.delta + Quot(asp.delta, 4) + 5),
                     !.overflow = @ \/ ~InI16(low),
                     !.passes = Min2(@ + 1, MaxPasses)]
             ELSE IF r.ret >= asp.beta
             THEN [asp EXCEPT
                     !.moves = sorted,
                     !.adj_depth = adj_depth,
                     !.best_value = r.ret,
                     !.beta = Min2(Sat16(r.ret + asp.delta), SCORE_INF),
                     !.failed_high_count = @ + 1,
                     !.delta = Sat16(asp.delta + Quot(asp.delta, 4) + 5),
                     !.passes = Min2(@ + 1, MaxPasses)]
             ELSE [asp EXCEPT
                     !.pc = "head",
                     !.moves = sorted,
                     !.adj_depth = adj_depth,
                     !.best_value = r.ret,
                     !.completed_depth = asp.depth,
                     !.best = sorted[1].eval,
                     !.depth = @ + 1,
                     !.passes = Min2(@ + 1, MaxPasses)]

\* search(): a pass of the inner loop, for at most MaxPasses passes of an
\* iteration.
AspirePass(values) ==
    /\ asp.pc = "loop"
    /\ asp.passes < MaxPasses
    /\ asp' = PassOutcome(values)
    /\ UNCHANGED <<abcall, abcache, abret, ttVars, fillVars, mvVars, concVars, elVars,
                   poolVars, engVars>>

\* The worker is at the head of `while depth < 255 && !THREADS.stopped()`
\* with root_depth 4: the iterations before have left a best move, at the
\* head of the sorted move list, and have not failed high.
InitAspire ==
    /\ TTIdle /\ FillIdle /\ Mv16Idle /\ ConcIdle /\ ElectIdle /\ PoolIdle /\ EngineIdle
    /\ abcall = NoAbCall
    /\ abcache = NoEntry
    /\ abret = 0
    /\ \E prev \in AspPrevs, checked \in BOOLEAN :
          asp = [pc |-> "head", checked |-> checked, depth |-> 4, completed_depth |-> 3,
                 best |-> prev, prev |-> prev,
                 moves |-> <<EvalMove(AspMoves[1], prev), EvalMove(AspMoves[2], -SCORE_INF)>>,
                 alpha |-> -SCORE_INF, beta |-> SCORE_INF, delta |-> -SCORE_INF,
                 best_value |-> prev, failed_high_count |-> 0, adj_depth |-> 3,
                 passes |-> 0, overflow |-> FALSE]

NextAspire ==
    \/ AspireWindow
    \/ \E v1 \in AspValues, v2 \in AspValues : AspirePass(<<v1, v2>>)

SpecAspire == InitAspire /\ [][NextAspire]_vars

(* C26: the score of best_move after a successful iteration, which is the
   score of the info message sent, is a score of the search, strictly
   between -SCORE_INF and SCORE_INF: the -SCORE_INF written to the root
   moves that did not raise alpha is never the score of best_move, whatever
   the window and the values of the moves. *)
C26_BestMoveScoreIsReal ==
    (asp.pc = "head" /\ asp.completed_depth >= 4)
        => (-SCORE_INF < asp.best /\ asp.best < SCORE_INF)

(* C27: for depth >= 4 and a previous score strictly between -SCORE_INF and
   SCORE_INF, the first window of the iteration, computed on i16 with
   delta = 17 + prev * (prev / 16384), has
   -SCORE_INF <= alpha <= prev <= beta <= SCORE_INF, and no step of the
   computation overflows. *)
C27_InitialWindowAroundPrev ==
    (/\ asp.pc \in {"loop", "panicked"}
     /\ asp.passes = 0
     /\ -SCORE_INF < asp.prev /\ asp.prev < SCORE_INF)
        => /\ ~asp.overflow
           /\ asp.delta = 17 + asp.prev * Quot(asp.prev, 16384)
           /\ -SCORE_INF <= asp.alpha
           /\ asp.alpha <= asp.prev
           /\ asp.prev <= asp.beta
           /\ asp.beta <= SCORE_INF

(* C28: at the first call of root_search of every iteration
   failed_high_count is 0, so that the first attempt at each depth is
   searched at adj_depth = max(1, depth): the fail highs of an earlier depth
   do not reduce the depth of a later iteration. Runs in which the window
   arithmetic has overflowed are left aside. *)
C28_FirstPassAtFullDepth ==
    (asp.pc \in {"loop", "head"} /\ ~asp.overflow) =>
        /\ asp.passes = 0 /\ asp.pc = "loop" => asp.failed_high_count = 0
        /\ asp.passes = 1 /\ asp.pc = "loop" => asp.adj_depth = Max2(1, asp.depth)
        /\ asp.passes = 1 /\ asp.pc = "head" => asp.adj_depth = Max2(1, asp.depth - 1)

(***************************************************************************)
(* The depth of the first iteration: threads.rs 56-61, 258-310, 366-372.   *)
(***************************************************************************)

(* C29: iterative deepening starts at root depth 1: every iteration that
   completes leaves completed_depth >= 1, and so every vote the election
   collects carries a completed_depth >= 1. *)
C29_DepthStartsAtOne ==
    /\ [][\A w \in Workers :
             IterationCompletes(w) => rd'[w].completed_depth >= 1]_vars
    /\ [](\A k \in 1 .. Len(evotes) : evotes[k].depth >= 1)

(***************************************************************************)
(* The type of an entry: ttable.rs 118-120, 305-327.                       *)
(***************************************************************************)

\* The bits TTEntry::entry_type keeps of genbound: genbound & (!0 << 3)
EntryTypeBits(entry) == BitAnd(entry.genbound, U8(255 * Pow2(3)))

\* EntryType::from(u8), a transmute: the variant of a discriminant; a byte
\* that is no discriminant is not a value of the enum, and what the caller
\* then sees is any variant or the byte itself.
EntryTypeFrom(uint) ==
    IF uint \in EntryTypes THEN {uint} ELSE EntryTypes \cup {uint}

\* TTEntry::entry_type: the values a call can produce
entry_type(entry) == EntryTypeFrom(EntryTypeBits(entry))

\* The last call is a save that wrote its entry.
SaveWrote == ttLast.op = "save" /\ ttLast.depth > ttLast.old.depth

\* The last call is a probe that returned the entry the last save wrote.
ProbeHitOfSaved ==
    /\ ProbeAfterSave
    /\ lastSave.call.depth > lastSave.call.old.depth
    /\ ttLast.res.some

(* C30: the entry a save with type t in {Pv, Cut, All} has written, at any
   generation, has entry_type() = t, and so has the entry a later probe of
   the position returns after refreshing its generation. *)
C30_EntryTypeIsSavedType ==
    /\ SaveWrote =>
           entry_type(table[ttLast.handle[1]][ttLast.handle[2]]) = {ttLast.et}
    /\ ProbeHitOfSaved => entry_type(ttLast.res.e) = {lastSave.call.et}

(***************************************************************************)
(* The controller's cached best move: mod.rs 139-147, 198-251.             *)
(***************************************************************************)

\* A step of the controller prints a bestmove line.
PrintsBestMove == eprinted' = eprinted + 1

\* The moves the search of the last go can report.
MovesOfLastGo ==
    IF egos = 0 THEN {}
    ELSE {LegalMoves(sthr[egos].board)[k] : k \in 1 .. Len(LegalMoves(sthr[egos].board))}

(* C31: the controller changes its cached best move only while a search is
   live: a best-move message handled when the search has been stopped and
   its handle cleared leaves the cache as it is, and so a bestmove printed
   for a go is a move that go's own search has reported. *)
C31_CacheOnlyWhileSearchLive ==
    /\ [][(HandleBestMove /\ esearcher = 0) => ebest' = ebest]_vars
    /\ [][PrintsBestMove => ebest \in MovesOfLastGo]_vars

(* C32: whatever messages arrive, the controller never unwraps an absent
   board or cache: whenever board is set cache is set (so go finds a cache),
   and no message, a best move arriving after ucinewgame included, makes
   the controller's thread panic. *)
C32_BoardAndCachePresent ==
    /\ eboard # "none" => ecache
    /\ epc # "panicked"

(***************************************************************************)
(* The window of the aspiration loop: threads.rs 253-294.                  *)
(***************************************************************************)

\* The worker is about to call root_search(alpha, beta, adj_depth).
AtRootSearchCall == asp.pc = "loop"

(* C33: at every call of root_search the aspiration loop makes,
   -SCORE_INF <= alpha < beta <= SCORE_INF, after any sequence of fail-low
   and fail-high updates of the window.  The calls that follow an overflow
   of the 16-bit arithmetic are the case of C27 and are left aside. *)
C33_WindowIsOrdered ==
    (AtRootSearchCall /\ ~asp.overflow) =>
        /\ -SCORE_INF <= asp.alpha
        /\ asp.alpha < asp.beta
        /\ asp.beta <= SCORE_INF

(***************************************************************************)
(* SpecAspireLoop: the aspiration loop run for as many passes as it takes, *)
(* the stop flag not set: threads.rs 272-294.                              *)
(***************************************************************************)

\* search(): a pass of the inner loop, with no limit on the passes.
ReSearch(values) ==
    /\ asp.pc = "loop"
    /\ asp' = PassOutcome(values)
    /\ UNCHANGED <<abcall, abcache, abret, ttVars, fillVars, mvVars, concVars, elVars,
                   poolVars, engVars>>

\* The thread of the worker goes on.
WorkerRuns ==
    \/ AspireWindow
    \/ \E v1 \in AspValues, v2 \in AspValues : ReSearch(<<v1, v2>>)

NextAspireLoop == WorkerRuns

SpecAspireLoop == InitAspire /\ [][NextAspireLoop]_vars /\ WF_vars(WorkerRuns)

(* C34: at a fixed depth, the stop flag not set, whatever values strictly
   between -SCORE_INF and SCORE_INF root_search returns, the aspiration
   loop ends after finitely many fail-low and fail-high re-searches, with
   the returned value inside the window. *)
C34_ReSearchLoopEnds ==
    (asp.pc = "loop") ~> (asp.pc = "head")

(***************************************************************************)
(* The depth of a slot under concurrent calls: ttable.rs 177-187, 203-214. *)
(***************************************************************************)

(* C35: under any interleaving of the threads' probes and saves the depth a
   slot holds never goes down: no store, of a save racing another save or
   of a probe writing back the entry it loaded, replaces a deeper entry by
   a shallower one. *)
C35_SlotDepthNeverDecreases ==
    [][\A c \in Clusters, i \in Slots : table'[c][i].depth >= table[c][i].depth]_vars

====
